---------------------------- MODULE Spec2Model ----------------------------
(***************************************************************************)
(* Model of the python-ivi drivers tektronixAWG5000 (arbitrary waveform    *)
(* generator) and agilentBaseS (oscilloscope).                             *)
(*                                                                         *)
(* Real numbers are modelled exactly as integers counting multiples of     *)
(* 2^-25 (Unit is the real 1.0), so that the float32 conversion, the       *)
(* clipping and the byte layout of the waveform encoder are computed and   *)
(* not assumed.  Byte strings are sequences of integers in 0..255, names   *)
(* are sequences of one-character strings.                                 *)
(***************************************************************************)
EXTENDS Integers, Sequences, FiniteSets, TLC

VARIABLES
    enc_data,       \* the argument `data` of _arbitrary_waveform_create (encoder runs)
    enc_result,     \* what the encoder produced for enc_data
    simulate,       \* tektronixAWG5000._driver_operation_simulate
    wlist,          \* the waveform list held by the generator (names)
    wfm_catalog,    \* tektronixAWG5000._wfm_catalog
    arbitrary_waveform_n,   \* tektronixAWG5000._arbitrary_waveform_n
    op,             \* the last driver call on the generator and its arguments
    result,         \* what that call returned or raised
    sent,           \* the messages that call sent to the generator, in order
    handles,        \* history: the handles returned by create so far, in order
    rmode,          \* the run mode of the generator, as ':awgcontrol:rmode?' answers it
    output_mode,    \* tektronixAWG5000._output_mode, per output index
    output_mode_valid,  \* the cache validity of output_mode, per output index
    source_waveform,    \* the waveform each output of the generator plays (<<>>: none)
    output_state,       \* whether each output of the generator is on
    output_arbitrary_waveform,          \* tektronixAWG5000._output_arbitrary_waveform
    output_arbitrary_waveform_valid,    \* the cache validity of output_arbitrary_waveform
    output_enabled,         \* tektronixAWG5000._output_enabled
    output_enabled_valid,   \* the cache validity of output_enabled
    trigger_slope,      \* the start trigger slope of the generator, as ':trigger:slope?' answers it
    trigger_source,     \* its start trigger source, as ':trigger:source?' answers it
    trigger_level,      \* its start trigger level in volts, as ':trigger:level?' answers it
    output_start_trigger_slope,         \* tektronixAWG5000._output_start_trigger_slope
    output_start_trigger_slope_valid,   \* the cache validity of output_start_trigger_slope
    output_start_trigger_source,        \* tektronixAWG5000._output_start_trigger_source
    output_start_trigger_source_valid,  \* the cache validity of output_start_trigger_source
    output_start_trigger_threshold,         \* tektronixAWG5000._output_start_trigger_threshold
    output_start_trigger_threshold_valid,   \* the cache validity of output_start_trigger_threshold
    scope_simulate, \* agilentBaseS._driver_operation_simulate
    chan_input,     \* the input setting of each oscilloscope channel, as ':input?' answers it
    channel_coupling,           \* agilentBaseS._channel_coupling
    channel_coupling_valid,     \* the cache validity of channel_coupling
    channel_input_impedance,    \* agilentBaseS._channel_input_impedance
    channel_input_impedance_valid,  \* the cache validity of channel_input_impedance
    trig_mode,      \* the trigger mode of the oscilloscope, as ':trigger:mode?' answers it
    trig_edge_source,   \* its edge trigger source, as ':trigger:edge:source?' answers it
    trigger_type,       \* agilentBaseS._trigger_type
    trigger_type_valid, \* the cache validity of trigger_type
    chan_commonmode,    \* the common mode setting of each oscilloscope channel
    channel_common_mode,        \* agilentBaseS._channel_common_mode
    channel_common_mode_valid,  \* the cache validity of channel_common_mode
    scope_op,       \* the last driver call on the oscilloscope and its arguments
    scope_result,   \* what that call returned or raised
    scope_sent      \* the messages that call sent to the oscilloscope, in order

encVars == <<enc_data, enc_result>>
wfmVars == <<simulate, wlist, wfm_catalog, arbitrary_waveform_n, op, result, sent,
             handles>>
modeVars == <<rmode, output_mode, output_mode_valid>>
inputVars == <<chan_input, channel_coupling, channel_coupling_valid,
               channel_input_impedance, channel_input_impedance_valid>>
trigVars == <<trig_mode, trig_edge_source, trigger_type, trigger_type_valid,
              chan_commonmode, channel_common_mode, channel_common_mode_valid>>
scopeVars == <<scope_simulate, inputVars, trigVars, scope_op, scope_result, scope_sent>>
outVars == <<source_waveform, output_state, output_arbitrary_waveform,
             output_arbitrary_waveform_valid, output_enabled, output_enabled_valid>>
startVars == <<trigger_slope, trigger_source, trigger_level,
               output_start_trigger_slope, output_start_trigger_slope_valid,
               output_start_trigger_source, output_start_trigger_source_valid,
               output_start_trigger_threshold, output_start_trigger_threshold_valid>>
vars == <<encVars, wfmVars, modeVars, outVars, startVars, scopeVars>>

----------------------------------------------------------------------------
(* Bounds of the model *)

\* longest sample sequence handed to the encoder
MaxLen == 3

\* largest value the handle counter _arbitrary_waveform_n is followed to
MaxHandle == 2

\* number of analog oscilloscope channels followed (the driver has 4, each with
\* its own input setting and cache entries)
AnalogChannels == 2

----------------------------------------------------------------------------
(* Constants of tektronixAWG5000.__init__ *)

arbitrary_waveform_size_max == 16 * 1024 * 1024
arbitrary_waveform_size_min == 1
arbitrary_waveform_quantum == 1
output_count == 2

----------------------------------------------------------------------------
(* Numbers *)

\* the real number 1.0 in the model's fixed-point unit 2^-25
Unit == 2^25

Abs(v) == IF v < 0 THEN 0 - v ELSE v

RECURSIVE Log2Floor(_)
\* position of the highest set bit of m >= 1
Log2Floor(m) == IF m <= 1 THEN 0 ELSE 1 + Log2Floor(m \div 2)

RECURSIVE BitOr(_, _)
\* numpy.bitwise_or on non-negative integers
BitOr(a, b) ==
    IF a = 0 THEN b
    ELSE IF b = 0 THEN a
    ELSE (IF (a % 2 = 1) \/ (b % 2 = 1) THEN 1 ELSE 0) + 2 * BitOr(a \div 2, b \div 2)

\* numpy.left_shift
LeftShift(a, k) == a * 2^k

\* mutant of Clip: the clipping step left out
NoClip(v) == v

\* ndarray.clip(-1, 1) on one element
Clip(v) == IF v > Unit THEN Unit ELSE IF v < 0 - Unit THEN 0 - Unit ELSE v

\* The 24-bit significand (hidden bit included) and the biased exponent of the
\* float32 nearest to m * 2^-25, m >= 1, ties to even (ndarray.astype(float32)).
Float32Parts(m) ==
    LET p == Log2Floor(m)
        E == p + 102
    IN  IF p <= 23
        THEN [sig |-> m * 2^(23 - p), exp |-> E]
        ELSE LET sh   == p - 23
                 q    == m \div 2^sh
                 r    == m % 2^sh
                 half == 2^(sh - 1)
                 up   == (r > half) \/ (r = half /\ q % 2 = 1)
                 q1   == IF up THEN q + 1 ELSE q
             IN  IF q1 = 2^24
                 THEN [sig |-> 2^23, exp |-> E + 1]
                 ELSE [sig |-> q1, exp |-> E]

\* ndarray.astype(float32).tobytes() of one element: 4 bytes, least significant first
Float32Bytes(v) ==
    IF v = 0 THEN <<0, 0, 0, 0>>
    ELSE LET parts == Float32Parts(Abs(v))
             frac  == parts.sig - 2^23
             sign  == IF v < 0 THEN 1 ELSE 0
         IN  << frac % 256,
                (frac \div 256) % 256,
                (parts.exp % 2) * 128 + frac \div 65536,
                sign * 128 + parts.exp \div 2 >>

\* the value (in units of 2^-25) of 4 little-endian bytes read as a float32
Float32Value(b) ==
    LET sign == b[4] \div 128
        E    == (b[4] % 128) * 2 + b[3] \div 128
        frac == (b[3] % 128) * 65536 + b[2] * 256 + b[1]
        sig  == 2^23 + frac
        k    == E - 125
        mag  == IF k >= 0 THEN sig * 2^k ELSE sig \div 2^(0 - k)
    IN  IF E = 0 /\ frac = 0 THEN 0
        ELSE IF sign = 1 THEN 0 - mag ELSE mag

----------------------------------------------------------------------------
(* Byte strings and arrays *)

RECURSIVE Concat(_)
\* b''.join(parts)
Concat(parts) == IF parts = <<>> THEN <<>> ELSE Head(parts) \o Concat(Tail(parts))

\* Python slice s[lo:hi] with 0-based bounds, clamped to the sequence
Slice(s, lo, hi) ==
    LET h == IF hi > Len(s) THEN Len(s) ELSE hi
    IN  IF lo >= h THEN <<>> ELSE SubSeq(s, lo + 1, h)

\* mutant of Column: the first column, whichever is asked for
FirstColumn(a, j) == [i \in 1..Len(a) |-> a[i][1]]

\* data[:, j] of a two-dimensional array held as a sequence of rows (j 0-based)
Column(a, j) == [i \in 1..Len(a) |-> a[i][j + 1]]

\* bytes(n): n zero bytes
ZeroBytes(n) == [i \in 1..n |-> 0]

----------------------------------------------------------------------------
(* Waveform encoder: tektronixAWG5000._arbitrary_waveform_create *)

\* the shape-to-role table: which part of `data` is y, marker1 and marker2.
\* data.a holds the elements as a sequence of rows; a list and a one-dimensional
\* array are held as their single row.
\* has_y is FALSE when no branch assigns y (y stays None and len(y) raises).
Unpack(data) ==
    LET none == [has_y |-> FALSE, y |-> <<>>,
                 has_marker1 |-> FALSE, marker1 |-> <<>>,
                 has_marker2 |-> FALSE, marker2 |-> <<>>,
                 data_type |-> IF data.dtype = "int" THEN "int" ELSE "real"]
        shape == data.shape
        a == data.a
    IN  IF data.type = "list"
        THEN [none EXCEPT !.has_y = TRUE, !.y = a[1], !.data_type = "real"]
        ELSE IF Len(shape) = 1
        THEN [none EXCEPT !.has_y = TRUE, !.y = a[1]]
        ELSE IF Len(shape) = 2 /\ shape[1] = 1
        THEN [none EXCEPT !.has_y = TRUE, !.y = a[1]]
        ELSE IF Len(shape) = 2 /\ shape[2] = 1
        THEN [none EXCEPT !.has_y = TRUE, !.y = Column(a, 0)]
        ELSE IF Len(shape) = 2 /\ shape[1] = 2
        THEN [none EXCEPT !.has_y = TRUE, !.y = a[1],
                          !.has_marker1 = TRUE, !.marker1 = a[2]]
        ELSE IF Len(shape) = 2 /\ shape[2] = 2
        THEN [none EXCEPT !.has_y = TRUE, !.y = Column(a, 0),
                          !.has_marker1 = TRUE, !.marker1 = Column(a, 1)]
        ELSE IF Len(shape) = 2 /\ shape[1] = 3
        THEN [none EXCEPT !.has_y = TRUE, !.y = a[1],
                          !.has_marker1 = TRUE, !.marker1 = a[2],
                          !.has_marker2 = TRUE, !.marker2 = a[3]]
        ELSE IF Len(shape) = 2 /\ shape[2] = 3
        THEN [none EXCEPT !.has_y = TRUE, !.y = Column(a, 0),
                          !.has_marker1 = TRUE, !.marker1 = Column(a, 1),
                          !.has_marker2 = TRUE, !.marker2 = Column(a, 2)]
        ELSE none

\* marker.astype(bool).astype(uint32) on one element
AsBoolU32(v) == IF v # 0 THEN 1 ELSE 0

\* ndarray.astype(uint8) on one element
AsU8(v) == v % 256

\* bit of the control byte carrying marker 1, and marker 2
Marker1Shift == 6
Marker2Shift == 7

\* mutant of MarkerBytes: the two marker bits exchanged (marker 1 in bit 7, marker 2
\* in bit 6)
MarkerBytesSwapped(u) ==
    IF u.has_marker1
    THEN [i \in 1..Len(u.marker1) |->
            AsU8(BitOr(LeftShift(AsBoolU32(u.marker1[i]), Marker2Shift),
                       IF u.has_marker2
                       THEN LeftShift(AsBoolU32(u.marker2[i]), Marker1Shift)
                       ELSE 0))]
    ELSE ZeroBytes(Len(u.y))

\* the marker byte string: one control byte per element of the marker stream(s),
\* or bytes(len(y)) when no marker stream is given
MarkerBytes(u) ==
    IF u.has_marker1
    THEN LET marker == [i \in 1..Len(u.marker1) |->
                            LeftShift(AsBoolU32(u.marker1[i]), Marker1Shift)]
             both   == IF u.has_marker2
                       THEN [i \in 1..Len(u.marker1) |->
                                BitOr(marker[i],
                                      LeftShift(AsBoolU32(u.marker2[i]), Marker2Shift))]
                       ELSE marker
         IN  [i \in 1..Len(both) |-> AsU8(both[i])]
    ELSE ZeroBytes(Len(u.y))

\* y.clip(-1, 1).astype(float32).tobytes()
SampleBytes(y) == Concat([i \in 1..Len(y) |-> Float32Bytes(Clip(y[i]))])

\* mutant of RawData: the float bytes of all samples first, the marker bytes after
RawDataNotInterleaved(u) == SampleBytes(u.y) \o MarkerBytes(u)

\* raw_data for data_type 'real': per sample 4 float bytes followed by 1 marker byte
RawData(u) ==
    LET raw_data == SampleBytes(u.y)
        marker   == MarkerBytes(u)
    IN  Concat([i \in 1..Len(u.y) |->
                   Slice(raw_data, 4 * (i - 1), 4 * i) \o Slice(marker, i - 1, i)])

----------------------------------------------------------------------------
(* Inputs of the encoder runs *)

\* sample values: below -1, inside and exactly a float32, zero, inside and not a
\* float32 (0.5 + 2^-25), above 1
SampleValues == {0 - 2 * Unit, 0 - (Unit \div 4), 0, (Unit \div 2) + 1, 2 * Unit}

\* marker values as a caller stores them in the array next to the samples
MarkerValues == {0, Unit \div 2}

\* sample values of the stacked (two-dimensional) inputs: above 1, and inside
StackedSampleValues == {2 * Unit, 0 - (Unit \div 4)}

Streams(L, S) == [1..L -> S]

\* a one-dimensional ndarray, or a list of floats (type(data[0]) needs an element)
OneDimInputs ==
    UNION { { [type |-> tl[1], dtype |-> "float", shape |-> <<tl[2]>>, a |-> <<y>>] :
                y \in Streams(tl[2], SampleValues) } :
            tl \in { x \in {"ndarray", "list"} \X (0..MaxLen) :
                              x[1] = "list" => x[2] >= 1 } }

\* numpy.vstack((y, m1[, m2])): one row per stream
RowStacked(streams, L) ==
    [type |-> "ndarray", dtype |-> "float", shape |-> <<Len(streams), L>>, a |-> streams]

\* numpy.column_stack((y, m1[, m2])): one column per stream
ColumnStacked(streams, L) ==
    [type |-> "ndarray", dtype |-> "float", shape |-> <<L, Len(streams)>>,
     a |-> [i \in 1..L |-> [k \in 1..Len(streams) |-> streams[k][i]]]]

StreamTuples(L) ==
    { <<y>> : y \in Streams(L, StackedSampleValues) }
    \cup { <<y, m1>> : y \in Streams(L, StackedSampleValues),
                       m1 \in Streams(L, MarkerValues) }
    \cup { <<y, m1, m2>> : y \in Streams(L, StackedSampleValues),
                           m1 \in Streams(L, MarkerValues),
                           m2 \in Streams(L, MarkerValues) }

TwoDimInputs ==
    UNION { { RowStacked(s, L) : s \in StreamTuples(L) }
            \cup { ColumnStacked(s, L) : s \in StreamTuples(L) } : L \in 0..MaxLen }

EncInputs == OneDimInputs \cup TwoDimInputs

NoResult == [done |-> FALSE, accepted |-> FALSE, n |-> 0, raw_data |-> <<>>]

InitEnc ==
    /\ enc_data \in EncInputs
    /\ enc_result = NoResult

\* lines 436-505 on enc_data: unpack, then build raw_data for data_type 'real'
Encode ==
    /\ ~enc_result.done
    /\ LET u == Unpack(enc_data)
       IN  enc_result' =
             IF u.has_y /\ u.data_type = "real"
             THEN [done |-> TRUE, accepted |-> TRUE, n |-> Len(u.y), raw_data |-> RawData(u)]
             ELSE [done |-> TRUE, accepted |-> FALSE, n |-> 0, raw_data |-> <<>>]
    /\ UNCHANGED enc_data

----------------------------------------------------------------------------
(* Names and messages *)

Range(f) == { f[i] : i \in DOMAIN f }

DigitChars == <<"0", "1", "2", "3", "4", "5", "6", "7", "8", "9">>

RECURSIVE Digits(_)
\* "%d" % n for n >= 0, as a sequence of characters
Digits(n) ==
    IF n < 10 THEN <<DigitChars[n + 1]>>
    ELSE Digits(n \div 10) \o <<DigitChars[(n % 10) + 1]>>

\* mutant of Fmt04d: the number without zero padding ("%d")
FmtUnpadded(n) == Digits(n)

\* "%04d" % n: at least four characters, zeros on the left
Fmt04d(n) ==
    LET d == Digits(n)
    IN  IF Len(d) >= 4 THEN d ELSE [i \in 1..(4 - Len(d)) |-> "0"] \o d

\* "wfm%04d" % n
Handle(n) == <<"w", "f", "m">> \o Fmt04d(n)

\* a waveform that is on the generator without the driver having created it: a
\* predefined one (its name starts with *)
PredefinedName == <<"*", "d", "c">>

\* the names the model follows on the generator, in the order the generator lists them
NameOrder == <<PredefinedName>> \o [k \in 1..MaxHandle |-> Handle(k)]

Names == Range(NameOrder)

\* the generator's answers to 'wlist:name? ii' for ii = 0, 1, ...: its names, quoted
Listing(wl) ==
    LET present == SelectSeq(NameOrder, LAMBDA nm : nm \in wl)
    IN  [i \in 1..Len(present) |-> <<"\"">> \o present[i] \o <<"\"">>]

\* a message to the generator: kind is "write", "ask" or "block"
Msg(kind, cmd, name, n, data_type, data) ==
    [kind |-> kind, cmd |-> cmd, name |-> name, n |-> n,
     data_type |-> data_type, data |-> data]

\* the query every _ask, _write and _write_ieee_block of the generator driver ends with
ErrorQuery == Msg("ask", ":system:error?", <<>>, 0, "", <<>>)

\* _ask(text): the query, then _check_last_error
AskMsgs(cmd, n) == << Msg("ask", cmd, <<>>, n, "", <<>>), ErrorQuery >>

\* mutant of WriteMsgs: the command alone, the generator is not asked for an error
WriteOnlyMsgs(cmd, name, n, data_type) == << Msg("write", cmd, name, n, data_type, <<>>) >>

\* _write(text): the command, then _check_last_error
WriteMsgs(cmd, name, n, data_type) == << Msg("write", cmd, name, n, data_type, <<>>), ErrorQuery >>

\* mutant of BlockMsgs: the block is not sent
NoBlockMsgs(cmd, name, n, data) == <<>>

\* _write_ieee_block(data, prefix): the block, then _check_last_error
BlockMsgs(cmd, name, n, data) == << Msg("block", cmd, name, n, "", data), ErrorQuery >>

----------------------------------------------------------------------------
(* tektronixAWG5000: waveform catalog, handles, create and clear *)

\* _load_wfm_catalog.  fail is the number of the query after which the generator
\* reports an error (1: 'wlist:size?', 1 + k: the k-th 'wlist:name?'), 0 for none.
\* loaded is FALSE when the call raised.
LoadWfmCatalog(sim, wl, fail) ==
    IF sim
    THEN [loaded |-> TRUE, catalog |-> <<>>, msgs |-> <<>>]
    ELSE LET answers == Listing(wl)
             wfm_list_length == Len(answers)
             asked == IF fail >= 1 /\ fail <= wfm_list_length + 1
                      THEN fail - 1
                      ELSE wfm_list_length
             names == [ii \in 1..asked |-> Slice(answers[ii], 1, Len(answers[ii]) - 1)]
         IN  [loaded  |-> ~(fail >= 1 /\ fail <= wfm_list_length + 1),
              \* the name answered by the failing query is not appended
              catalog |-> names,
              msgs    |-> AskMsgs("wlist:size?", 0)
                          \o Concat([ii \in 1..(IF fail = 1 THEN 0
                                               ELSE IF fail >= 2 /\ fail <= wfm_list_length + 1
                                               THEN fail - 1 ELSE wfm_list_length) |->
                                       AskMsgs("wlist:name?", ii - 1)])]

\* mutant of UnusedHandleNumber: the first number whose handle is not in the
\* catalog, the counter not consulted
FirstFreeNumber(n, catalog) ==
    CHOOSE m \in 1..(Len(catalog) + 1) :
        /\ Handle(m) \notin Range(catalog)
        /\ \A k \in 1..(m - 1) : Handle(k) \in Range(catalog)

\* mutant of UnusedHandleNumber: the counter advanced by two, the catalog not
\* consulted
CounterSkipsOne(n, catalog) == n + 2

\* mutant of UnusedHandleNumber: the next counter value, the catalog not consulted
NextCounterValue(n, catalog) == n + 1

RECURSIVE UnusedHandleNumber(_, _)
\* the loop 'while not have_handle': the counter value it stops at
UnusedHandleNumber(n, catalog) ==
    IF Handle(n + 1) \notin Range(catalog) THEN n + 1
    ELSE UnusedHandleNumber(n + 1, catalog)

\* mutant of HandleInCatalog: every handle taken as known
AnyHandle(handle, catalog) == TRUE

\* 'handle in self._wfm_catalog'
HandleInCatalog(handle, catalog) == handle \in Range(catalog)

NoOp == [name |-> "none", handle |-> <<>>, data |-> <<>>, fail |-> 0]
NoneResult == [raised |-> "", value |-> <<>>]
Raised(e) == [raised |-> e, value |-> <<>>]
Returned(v) == [raised |-> "", value |-> v]

\* the arrays handed to create in the generator runs
NoData == [type |-> "ndarray", dtype |-> "float", shape |-> <<0>>, a |-> << <<>> >>]
CreateInputs ==
    { NoData,
      ColumnStacked(<< <<2 * Unit, 0, 0 - Unit>>, <<0, Unit, Unit>> >>, 3),
      [type |-> "ndarray", dtype |-> "int", shape |-> <<1>>, a |-> << <<Unit>> >>],
      [type |-> "ndarray", dtype |-> "float", shape |-> <<4, 4>>,
       a |-> [i \in 1..4 |-> [j \in 1..4 |-> 0]]] }

\* the array handed to create when the outputs are followed
OutCreateInput == ColumnStacked(<< <<2 * Unit, 0, 0 - Unit>>, <<0, Unit, Unit>> >>, 3)

\* mutant of CreateMsgs: the data block ahead of the 'new' command
BlockBeforeNew(cat_msgs, new_msgs, block_msgs) == cat_msgs \o block_msgs \o new_msgs

\* the messages of a create that got to its data block, in the order of the
\* statements: _load_wfm_catalog, the 'new' command, the data block
CreateMsgs(cat_msgs, new_msgs, block_msgs) == cat_msgs \o new_msgs \o block_msgs

\* _arbitrary_waveform_create(data).  fail numbers the message after which the
\* generator reports an error: the catalog queries first, then the 'new' command,
\* then the data block; 0 for none.
ArbitraryWaveformCreate(data, fail) ==
    LET u == Unpack(data)
        cat == LoadWfmCatalog(simulate, wlist, fail)
        steps == IF simulate THEN 0 ELSE Cardinality(wlist) + 3
        n == UnusedHandleNumber(arbitrary_waveform_n, cat.catalog)
        handle == Handle(n)
        new_msgs == IF simulate THEN <<>>
                    ELSE WriteMsgs(":wlist:waveform:new", handle, Len(u.y), u.data_type)
        new_fails == ~simulate /\ fail = Cardinality(wlist) + 2
        block_fails == ~simulate /\ fail = Cardinality(wlist) + 3
        block_msgs == IF simulate THEN <<>>
                      ELSE BlockMsgs(":wlist:waveform:data", handle, Len(u.y), RawData(u))
        empty_block == IF simulate THEN <<>>
                       ELSE BlockMsgs(":wlist:waveform:data", handle, Len(u.y), <<>>)
    IN  /\ fail <= steps
        /\ op' = [name |-> "create", handle |-> <<>>, data |-> data, fail |-> fail]
        /\ IF ~u.has_y
           THEN \* len(None)
                /\ fail = 0
                /\ result' = Raised("TypeError")
                /\ sent' = <<>>
                /\ UNCHANGED <<wlist, wfm_catalog, arbitrary_waveform_n, handles>>
           ELSE IF Len(u.y) % arbitrary_waveform_quantum # 0
           THEN /\ fail = 0
                /\ result' = Raised("ValueNotSupportedException")
                /\ sent' = <<>>
                /\ UNCHANGED <<wlist, wfm_catalog, arbitrary_waveform_n, handles>>
           ELSE IF ~cat.loaded
           THEN /\ result' = Raised("IviException")
                /\ sent' = cat.msgs
                /\ wfm_catalog' = cat.catalog
                /\ UNCHANGED <<wlist, arbitrary_waveform_n, handles>>
           ELSE /\ n <= MaxHandle
                /\ wfm_catalog' = cat.catalog
                /\ arbitrary_waveform_n' = n
                /\ IF new_fails
                   THEN /\ result' = Raised("IviException")
                        /\ sent' = cat.msgs \o new_msgs
                        /\ UNCHANGED <<wlist, handles>>
                   ELSE IF u.data_type # "real" /\ Len(u.y) > 0
                   THEN \* struct.data does not exist
                        /\ fail = 0
                        /\ result' = Raised("AttributeError")
                        /\ sent' = cat.msgs \o new_msgs
                        /\ wlist' = IF simulate THEN wlist ELSE wlist \cup {handle}
                        /\ UNCHANGED handles
                   ELSE IF block_fails
                   THEN /\ result' = Raised("IviException")
                        /\ sent' = CreateMsgs(cat.msgs, new_msgs,
                                   IF u.data_type = "real" THEN block_msgs ELSE empty_block)
                        /\ wlist' = wlist \cup {handle}
                        /\ UNCHANGED handles
                   ELSE /\ result' = Returned(handle)
                        /\ sent' = CreateMsgs(cat.msgs, new_msgs,
                                   IF u.data_type = "real" THEN block_msgs ELSE empty_block)
                        /\ wlist' = IF simulate THEN wlist ELSE wlist \cup {handle}
                        /\ handles' = Append(handles, handle)

\* _arbitrary_waveform_clear(handle).  fail numbers the message after which the
\* generator reports an error: the catalog queries first, then the delete; 0 for none.
ArbitraryWaveformClear(handle, fail) ==
    LET cat == LoadWfmCatalog(simulate, wlist, fail)
        steps == IF simulate THEN 0 ELSE Cardinality(wlist) + 2
        delete_msgs == IF simulate THEN <<>>
                       ELSE WriteMsgs(":wlist:waveform:delete", handle, 0, "")
        delete_fails == ~simulate /\ fail = Cardinality(wlist) + 2
    IN  /\ fail <= steps
        /\ op' = [name |-> "clear", handle |-> handle, data |-> <<>>, fail |-> fail]
        /\ wfm_catalog' = cat.catalog
        /\ UNCHANGED <<arbitrary_waveform_n, handles>>
        /\ IF ~cat.loaded
           THEN /\ result' = Raised("IviException")
                /\ sent' = cat.msgs
                /\ UNCHANGED <<wlist, source_waveform>>
           ELSE IF ~HandleInCatalog(handle, cat.catalog)
           THEN /\ ~delete_fails
                /\ result' = Raised("InvalidOptionValueException")
                /\ sent' = cat.msgs
                /\ UNCHANGED <<wlist, source_waveform>>
           ELSE IF delete_fails
           THEN /\ result' = Raised("IviException")
                /\ sent' = cat.msgs \o delete_msgs
                /\ UNCHANGED <<wlist, source_waveform>>
           ELSE /\ result' = NoneResult
                /\ sent' = cat.msgs \o delete_msgs
                /\ wlist' = wlist \ {handle}
                \* an output that plays the deleted waveform plays none afterwards
                /\ source_waveform' =
                      [k \in DOMAIN source_waveform |->
                          IF source_waveform[k] = handle THEN <<>> ELSE source_waveform[k]]

\* a waveform created on the generator by someone else between two driver calls
ExternalCreate(name) ==
    /\ ~simulate
    /\ name \notin wlist
    /\ wlist' = wlist \cup {name}
    /\ UNCHANGED <<wfm_catalog, arbitrary_waveform_n, op, result, sent, handles>>

----------------------------------------------------------------------------
(* tektronixAWG5000: output mode and its cache, reset *)

\* fgen.OutputMode, and the value _init_outputs gives every output
OutputMode == {"function", "arbitrary", "sequence"}
DefaultOutputMode == "function"

Outputs == 0..(output_count - 1)

\* the answers of ':awgcontrol:rmode?'
RModes == {"CONT", "TRIG", "SEQ"}

\* str.lower() on the answers of the instruments
Lower(resp) ==
    CASE resp = "CONT" -> "cont"
      [] resp = "TRIG" -> "trig"
      [] resp = "SEQ"  -> "seq"
      [] resp = "DC"   -> "dc"
      [] resp = "DC50" -> "dc50"
      [] resp = "AC"   -> "ac"
      [] OTHER -> resp

\* _set_cache_valid(valid, index=index) on the entries of one attribute
SetCacheValid(valid_of, index, valid) == [valid_of EXCEPT ![index] = valid]

\* driver_operation.invalidate_all_attributes() on the entries of one attribute
InvalidateAll(valid_of) == [k \in DOMAIN valid_of |-> FALSE]

\* mutant of OutputModeValidAfterSet: only the entry of the output that was set is touched
OwnEntryValidAfterSet(valid_of, index) == SetCacheValid(valid_of, index, TRUE)

\* the validity of the output_mode entries when _set_output_mode returns: every
\* output's entry invalidated, then the entry of `index` marked valid
OutputModeValidAfterSet(valid_of, index) ==
    SetCacheValid([k \in DOMAIN valid_of |-> FALSE], index, TRUE)

\* _get_output_mode(index); fail = 1: the generator reports an error after the query
GetOutputMode(index, fail) ==
    /\ op' = [name |-> "get_output_mode", handle |-> <<>>, data |-> <<index>>, fail |-> fail]
    /\ UNCHANGED rmode
    /\ IF ~simulate /\ ~output_mode_valid[index]
       THEN /\ sent' = AskMsgs(":awgcontrol:rmode?", 0)
            /\ IF fail = 1
               THEN /\ result' = Raised("IviException")
                    /\ UNCHANGED <<output_mode, output_mode_valid>>
               ELSE LET value == IF Lower(rmode) = "seq" THEN "sequence" ELSE "arbitrary"
                    IN  /\ output_mode' = [output_mode EXCEPT ![index] = value]
                        /\ output_mode_valid' = SetCacheValid(output_mode_valid, index, TRUE)
                        /\ result' = Returned(value)
       ELSE /\ fail = 0
            /\ sent' = <<>>
            /\ result' = Returned(output_mode[index])
            /\ UNCHANGED <<output_mode, output_mode_valid>>

\* _set_output_mode(index, value); fail = 1: the generator reports an error after
\* the command
SetOutputMode(index, value, fail) ==
    /\ op' = [name |-> "set_output_mode", handle |-> <<>>, data |-> <<index, value>>,
              fail |-> fail]
    /\ IF value \notin OutputMode \/ value = "function"
       THEN /\ fail = 0
            /\ result' = Raised("ValueNotSupportedException")
            /\ sent' = <<>>
            /\ UNCHANGED <<rmode, output_mode, output_mode_valid>>
       ELSE LET text == IF value = "sequence" THEN ":awgcontrol:rmode sequence"
                        ELSE ":awgcontrol:rmode continuous"
            IN  /\ sent' = IF simulate THEN <<>> ELSE WriteMsgs(text, <<>>, 0, "")
                /\ IF ~simulate /\ fail = 1
                   THEN /\ result' = Raised("IviException")
                        /\ UNCHANGED <<rmode, output_mode, output_mode_valid>>
                   ELSE /\ fail = 0
                        /\ rmode' = IF simulate THEN rmode
                                    ELSE IF value = "sequence" THEN "SEQ" ELSE "CONT"
                        /\ output_mode' = [output_mode EXCEPT ![index] = value]
                        /\ output_mode_valid' = OutputModeValidAfterSet(output_mode_valid, index)
                        /\ result' = NoneResult

\* mutant of ValidAfterReset: the entries left as they are
ValidKeptAfterReset(valid_of) == valid_of

\* the validity of the entries of an attribute after the reset went through
ValidAfterReset(valid_of) == InvalidateAll(valid_of)

\* _utility_reset(); fail = 1: the generator reports an error after '*RST'.
\* '*RST' puts the generator in its default run mode; it keeps the waveform list
\* or leaves only the predefined waveforms in it.
UtilityReset(fail) ==
    /\ op' = [name |-> "utility_reset", handle |-> <<>>, data |-> <<>>, fail |-> fail]
    /\ UNCHANGED <<wfm_catalog, arbitrary_waveform_n, handles, output_mode,
                   output_arbitrary_waveform, output_enabled>>
    /\ IF simulate
       THEN /\ fail = 0
            /\ sent' = <<>>
            /\ result' = NoneResult
            /\ UNCHANGED <<wlist, rmode, output_mode_valid, source_waveform, output_state,
                           output_arbitrary_waveform_valid, output_enabled_valid>>
       ELSE /\ sent' = WriteMsgs("*RST", <<>>, 0, "")
            /\ IF fail = 1
               THEN /\ result' = Raised("IviException")
                    /\ UNCHANGED <<wlist, rmode, output_mode_valid, source_waveform,
                                   output_state, output_arbitrary_waveform_valid,
                                   output_enabled_valid>>
               ELSE /\ result' = NoneResult
                    /\ rmode' = "CONT"
                    /\ wlist' \in {wlist, wlist \cap {PredefinedName}}
                    /\ source_waveform' = [k \in DOMAIN source_waveform |-> <<>>]
                    /\ output_state' = [k \in DOMAIN output_state |-> FALSE]
                    /\ output_mode_valid' = ValidAfterReset(output_mode_valid)
                    /\ output_arbitrary_waveform_valid' =
                          ValidAfterReset(output_arbitrary_waveform_valid)
                    /\ output_enabled_valid' = ValidAfterReset(output_enabled_valid)

----------------------------------------------------------------------------
(* tektronixAWG5000: the waveform and the state of an output, status, and the
   setters that do not reach the generator *)

\* the names of the outputs (fgen.Base._init_outputs) and the arguments that
\* select one in the runs: a name or an integer
OutputName == <<"output1", "output2">>
Selectors ==
    { [kind |-> "name", name |-> "output1", int |-> 0],
      [kind |-> "name", name |-> "output2", int |-> 0],
      [kind |-> "name", name |-> "output9", int |-> 0],
      [kind |-> "int", name |-> "", int |-> 0],
      [kind |-> "int", name |-> "", int |-> output_count] }

\* ivi.get_index(names, i): the index, or the exception it raises
GetIndex(names, i) ==
    IF i.kind = "name"
    THEN IF \E k \in 1..Len(names) : names[k] = i.name
         THEN [raised |-> "", index |-> (CHOOSE k \in 1..Len(names) : names[k] = i.name) - 1]
         ELSE [raised |-> "SelectorNameException", index |-> 0]
    ELSE IF i.int < 0 \/ i.int >= Len(names)
         THEN [raised |-> "SelectorRangeException", index |-> 0]
         ELSE [raised |-> "", index |-> i.int]

\* str.lower() on a name, character by character
LowerChar(c) ==
    CASE c = "W" -> "w"
      [] c = "F" -> "f"
      [] c = "M" -> "m"
      [] c = "D" -> "d"
      [] c = "C" -> "c"
      [] OTHER -> c
LowerName(name) == [i \in 1..Len(name) |-> LowerChar(name[i])]

RECURSIVE StripQuotes(_)
\* resp.strip('"')
StripQuotes(resp) ==
    IF resp # <<>> /\ Head(resp) = "\"" THEN StripQuotes(Tail(resp))
    ELSE IF resp # <<>> /\ resp[Len(resp)] = "\"" THEN StripQuotes(SubSeq(resp, 1, Len(resp) - 1))
    ELSE resp

\* the generator's answer to ':sourceN:waveform?': the name, quoted
Quoted(name) == <<"\"">> \o name \o <<"\"">>

\* the waveform names handed to the setter of an output's waveform
UpperHandle == <<"W", "F", "M", "0", "0", "0", "1">>
WaveformArgs == Names \cup {UpperHandle}

\* _get_output_arbitrary_waveform(index); fail = 1: the generator reports an error
\* after the query
GetOutputArbitraryWaveform(index, fail) ==
    /\ op' = [name |-> "get_output_arbitrary_waveform", handle |-> <<>>,
              data |-> [index |-> index], fail |-> fail]
    /\ IF ~simulate /\ ~output_arbitrary_waveform_valid[index]
       THEN /\ sent' = AskMsgs(":source%d:waveform?", index + 1)
            /\ IF fail = 1
               THEN /\ result' = Raised("IviException")
                    /\ UNCHANGED <<output_arbitrary_waveform, output_arbitrary_waveform_valid>>
               ELSE LET value == LowerName(StripQuotes(Quoted(source_waveform[index])))
                    IN  /\ output_arbitrary_waveform' =
                              [output_arbitrary_waveform EXCEPT ![index] = value]
                        /\ output_arbitrary_waveform_valid' =
                              SetCacheValid(output_arbitrary_waveform_valid, index, TRUE)
                        /\ result' = Returned(value)
       ELSE /\ fail = 0
            /\ sent' = <<>>
            /\ result' = Returned(output_arbitrary_waveform[index])
            /\ UNCHANGED <<output_arbitrary_waveform, output_arbitrary_waveform_valid>>

\* _set_output_arbitrary_waveform(index, value).  fail numbers the message after
\* which the generator reports an error: the catalog queries first, then the
\* command; 0 for none.
SetOutputArbitraryWaveform(index, arg, fail) ==
    LET value == LowerName(arg)
        cat == LoadWfmCatalog(simulate, wlist, fail)
        steps == IF simulate THEN 0 ELSE Cardinality(wlist) + 2
        write_fails == ~simulate /\ fail = Cardinality(wlist) + 2
        write_msgs == IF simulate THEN <<>>
                      ELSE WriteMsgs(":source%d:waveform", value, index + 1, "")
    IN  /\ fail <= steps
        /\ op' = [name |-> "set_output_arbitrary_waveform", handle |-> arg,
                  data |-> [index |-> index], fail |-> fail]
        /\ wfm_catalog' = cat.catalog
        /\ UNCHANGED output_arbitrary_waveform_valid
        /\ IF ~cat.loaded
           THEN /\ result' = Raised("IviException")
                /\ sent' = cat.msgs
                /\ UNCHANGED <<source_waveform, output_arbitrary_waveform>>
           ELSE IF value \notin Range(cat.catalog)
           THEN /\ ~write_fails
                /\ result' = Raised("ValueNotSupportedException")
                /\ sent' = cat.msgs
                /\ UNCHANGED <<source_waveform, output_arbitrary_waveform>>
           ELSE IF write_fails
           THEN /\ result' = Raised("IviException")
                /\ sent' = cat.msgs \o write_msgs
                /\ UNCHANGED <<source_waveform, output_arbitrary_waveform>>
           ELSE /\ result' = NoneResult
                /\ sent' = cat.msgs \o write_msgs
                /\ source_waveform' = IF simulate THEN source_waveform
                                      ELSE [source_waveform EXCEPT ![index] = value]
                /\ output_arbitrary_waveform' =
                      [output_arbitrary_waveform EXCEPT ![index] = value]

\* bool(value), and "%d" % value for a bool
AsBool(value) == value # 0
BoolDigit(b) == IF b THEN 1 ELSE 0

\* _get_output_enabled(index); the index is a name or an integer; fail = 1: the
\* generator reports an error after the query
GetOutputEnabled(i, fail) ==
    LET r == GetIndex(OutputName, i)
        index == r.index
    IN  /\ op' = [name |-> "get_output_enabled", handle |-> <<>>, data |-> <<i>>, fail |-> fail]
        /\ UNCHANGED output_state
        /\ IF r.raised # ""
           THEN /\ fail = 0
                /\ result' = Raised(r.raised)
                /\ sent' = <<>>
                /\ UNCHANGED <<output_enabled, output_enabled_valid>>
           ELSE IF ~simulate /\ ~output_enabled_valid[index]
           THEN /\ sent' = AskMsgs(":output%d:state?", index + 1)
                /\ IF fail = 1
                   THEN /\ result' = Raised("IviException")
                        /\ UNCHANGED <<output_enabled, output_enabled_valid>>
                   ELSE LET value == AsBool(BoolDigit(output_state[index]))
                        IN  /\ output_enabled' = [output_enabled EXCEPT ![index] = value]
                            /\ output_enabled_valid' =
                                  SetCacheValid(output_enabled_valid, index, TRUE)
                            /\ result' = Returned(value)
           ELSE /\ fail = 0
                /\ sent' = <<>>
                /\ result' = Returned(output_enabled[index])
                /\ UNCHANGED <<output_enabled, output_enabled_valid>>

\* _set_output_enabled(index, value); fail = 1: the generator reports an error
\* after the command
SetOutputEnabled(i, arg, fail) ==
    LET r == GetIndex(OutputName, i)
        index == r.index
        value == AsBool(arg)
    IN  /\ op' = [name |-> "set_output_enabled", handle |-> <<>>, data |-> <<i, arg>>,
                  fail |-> fail]
        /\ IF r.raised # ""
           THEN /\ fail = 0
                /\ result' = Raised(r.raised)
                /\ sent' = <<>>
                /\ UNCHANGED <<output_state, output_enabled, output_enabled_valid>>
           ELSE /\ sent' = IF simulate THEN <<>>
                           ELSE WriteMsgs(":output%d:state", <<>>, index + 1,
                                          IF BoolDigit(value) = 1 THEN "1" ELSE "0")
                /\ IF ~simulate /\ fail = 1
                   THEN /\ result' = Raised("IviException")
                        /\ UNCHANGED <<output_state, output_enabled, output_enabled_valid>>
                   ELSE /\ fail = 0
                        /\ output_state' = IF simulate THEN output_state
                                           ELSE [output_state EXCEPT ![index] = value]
                        /\ output_enabled' = [output_enabled EXCEPT ![index] = value]
                        /\ output_enabled_valid' =
                              SetCacheValid(output_enabled_valid, index, TRUE)
                        /\ result' = NoneResult

\* _get_status(): int(self._ask('AWGC:RSTate?')); answer is what the generator
\* answers, fail = 1: it reports an error after the query.  In simulate mode _ask
\* gives None.
GetStatus(answer, fail) ==
    /\ op' = [name |-> "get_status", handle |-> <<>>, data |-> <<>>, fail |-> fail]
    /\ IF simulate
       THEN /\ fail = 0
            /\ answer = 0
            /\ sent' = <<>>
            /\ result' = Raised("TypeError")
       ELSE /\ sent' = AskMsgs("AWGC:RSTate?", 0)
            /\ result' = IF fail = 1 THEN Raised("IviException") ELSE Returned(answer)

\* fgen.OperationMode
OperationMode == {"continuous", "burst"}

\* the values handed to _set_output_operation_mode: those of fgen.OperationMode
\* and one that is not among them
OperationModeArgs == {"continuous", "burst", "gated"}

\* _set_output_operation_mode(index, value): the name OperationMode is not defined
\* in the module
SetOutputOperationMode(i, value) ==
    LET r == GetIndex(OutputName, i)
    IN  /\ op' = [name |-> "set_output_operation_mode", handle |-> <<>>,
                  data |-> <<i, value>>, fail |-> 0]
        /\ sent' = <<>>
        /\ result' = IF r.raised # "" THEN Raised(r.raised) ELSE Raised("NameError")

\* _set_output_start_trigger_delay(index, value): pass
SetOutputStartTriggerDelay(i, value) ==
    /\ op' = [name |-> "set_output_start_trigger_delay", handle |-> <<>>,
              data |-> <<i, value>>, fail |-> 0]
    /\ sent' = <<>>
    /\ result' = NoneResult

----------------------------------------------------------------------------
(* tektronixAWG5000: run and stop, the start trigger, the data markers *)

\* mutant of RunRequest: the run request, then the run state asked for
RunThenStatus == WriteMsgs("AWGC:RUN", <<>>, 0, "") \o AskMsgs("AWGC:RSTate?", 0)

\* what _initiate_generation sends
RunRequest == WriteMsgs("AWGC:RUN", <<>>, 0, "")

\* what _abort_generation sends
StopRequest == WriteMsgs("AWGC:STOP", <<>>, 0, "")

\* _initiate_generation(); fail = 1: the generator reports an error after the
\* command.  In simulate mode _write sends nothing.
InitiateGeneration(fail) ==
    /\ op' = [name |-> "initiate_generation", handle |-> <<>>, data |-> <<>>, fail |-> fail]
    /\ IF simulate
       THEN fail = 0 /\ sent' = <<>> /\ result' = NoneResult
       ELSE /\ sent' = RunRequest
            /\ result' = IF fail = 1 THEN Raised("IviException") ELSE NoneResult

\* _abort_generation()
AbortGeneration(fail) ==
    /\ op' = [name |-> "abort_generation", handle |-> <<>>, data |-> <<>>, fail |-> fail]
    /\ IF simulate
       THEN fail = 0 /\ sent' = <<>> /\ result' = NoneResult
       ELSE /\ sent' = StopRequest
            /\ result' = IF fail = 1 THEN Raised("IviException") ELSE NoneResult

\* fgen.TriggerSlope, TriggerSource (line 40), and the values the lists hold
\* before any set or query
TriggerSlope == {"positive", "negative", "either"}
TriggerSource == {"internal", "external"}
DefaultStartTriggerSlope == "positive"
DefaultStartTriggerSource == ""
DefaultStartTriggerThreshold == 0

\* the answers of the generator to ':trigger:slope?' and ':trigger:source?'
SlopeAnswers == {"POS", "NEG"}
SourceAnswers == {"INT", "EXT"}

\* the levels set and answered, in volts
TriggerLevels == {0, 1}

\* the values handed to the setters: the legal ones, one the driver refuses, and
\* for the source None
SlopeArgs == TriggerSlope
SourceArgs == TriggerSource \cup {"None", "bus"}

\* mutant of TriggerSlopeMap: the two slopes exchanged
SlopeMapSwapped(resp) == IF resp = "POS" THEN "negative" ELSE "positive"

\* TriggerSlopeMap[resp.lower()] and TriggerSourceMap[resp.lower()] (lines 38-39)
TriggerSlopeMap(resp) == IF resp = "POS" THEN "positive" ELSE "negative"
TriggerSourceMap(resp) == IF resp = "INT" THEN "internal" ELSE "external"

\* the setting the generator takes from ':trigger:slope <value>' and from
\* ':trigger:source <value>'
SlopeSetting(value) == IF value = "positive" THEN "POS" ELSE "NEG"
SourceSetting(value) == IF value = "internal" THEN "INT" ELSE "EXT"

\* [value for ii in range(self._output_count)]
ForAllOutputs(value) == [k \in Outputs |-> value]

\* 'if value is None: value = "internal"'
SourceStored(value) == IF value = "None" THEN "internal" ELSE value

\* _get_output_start_trigger_slope(index); fail = 1: an error after the query
GetOutputStartTriggerSlope(i, fail) ==
    LET r == GetIndex(OutputName, i)
        index == r.index
    IN  /\ op' = [name |-> "get_output_start_trigger_slope", handle |-> <<>>,
                  data |-> <<i>>, fail |-> fail]
        /\ UNCHANGED trigger_slope
        /\ IF r.raised # ""
           THEN /\ fail = 0
                /\ result' = Raised(r.raised)
                /\ sent' = <<>>
                /\ UNCHANGED <<output_start_trigger_slope, output_start_trigger_slope_valid>>
           ELSE IF ~simulate /\ ~output_start_trigger_slope_valid[index]
           THEN /\ sent' = AskMsgs(":trigger:slope?", 0)
                /\ IF fail = 1
                   THEN /\ result' = Raised("IviException")
                        /\ UNCHANGED <<output_start_trigger_slope,
                                       output_start_trigger_slope_valid>>
                   ELSE /\ output_start_trigger_slope' =
                              ForAllOutputs(TriggerSlopeMap(trigger_slope))
                        /\ output_start_trigger_slope_valid' =
                              SetCacheValid(output_start_trigger_slope_valid, index, TRUE)
                        /\ result' = Returned(TriggerSlopeMap(trigger_slope))
           ELSE /\ fail = 0
                /\ sent' = <<>>
                /\ result' = Returned(output_start_trigger_slope[index])
                /\ UNCHANGED <<output_start_trigger_slope, output_start_trigger_slope_valid>>

\* _set_output_start_trigger_slope(index, value); fail = 1: an error after the
\* command
SetOutputStartTriggerSlope(i, value, fail) ==
    LET r == GetIndex(OutputName, i)
        index == r.index
    IN  /\ op' = [name |-> "set_output_start_trigger_slope", handle |-> <<>>,
                  data |-> <<i, value>>, fail |-> fail]
        /\ IF r.raised # "" \/ value \notin TriggerSlope \/ value = "either"
           THEN /\ fail = 0
                /\ result' = IF r.raised # "" THEN Raised(r.raised)
                             ELSE Raised("ValueNotSupportedException")
                /\ sent' = <<>>
                /\ UNCHANGED <<trigger_slope, output_start_trigger_slope,
                               output_start_trigger_slope_valid>>
           ELSE /\ sent' = IF simulate THEN <<>>
                           ELSE WriteMsgs(":trigger:slope", <<>>, 0, value)
                /\ IF simulate THEN fail = 0 ELSE TRUE
                /\ IF fail = 1
                   THEN /\ result' = Raised("IviException")
                        /\ UNCHANGED <<trigger_slope, output_start_trigger_slope,
                                       output_start_trigger_slope_valid>>
                   ELSE /\ trigger_slope' = IF simulate THEN trigger_slope
                                            ELSE SlopeSetting(value)
                        /\ output_start_trigger_slope' = ForAllOutputs(value)
                        /\ output_start_trigger_slope_valid' =
                              SetCacheValid(output_start_trigger_slope_valid, index, TRUE)
                        /\ result' = NoneResult

\* _get_output_start_trigger_source(index)
GetOutputStartTriggerSource(i) ==
    LET r == GetIndex(OutputName, i)
        index == r.index
    IN  /\ op' = [name |-> "get_output_start_trigger_source", handle |-> <<>>,
                  data |-> <<i>>, fail |-> 0]
        /\ UNCHANGED trigger_source
        /\ IF r.raised # ""
           THEN /\ result' = Raised(r.raised)
                /\ sent' = <<>>
                /\ UNCHANGED <<output_start_trigger_source, output_start_trigger_source_valid>>
           ELSE IF ~simulate /\ ~output_start_trigger_source_valid[index]
           THEN /\ sent' = AskMsgs(":trigger:source?", 0)
                /\ output_start_trigger_source' =
                      ForAllOutputs(TriggerSourceMap(trigger_source))
                /\ output_start_trigger_source_valid' =
                      SetCacheValid(output_start_trigger_source_valid, index, TRUE)
                /\ result' = Returned(TriggerSourceMap(trigger_source))
           ELSE /\ sent' = <<>>
                /\ result' = Returned(output_start_trigger_source[index])
                /\ UNCHANGED <<output_start_trigger_source, output_start_trigger_source_valid>>

\* _set_output_start_trigger_source(index, value)
SetOutputStartTriggerSource(i, arg) ==
    LET r == GetIndex(OutputName, i)
        index == r.index
        value == SourceStored(arg)
    IN  /\ op' = [name |-> "set_output_start_trigger_source", handle |-> <<>>,
                  data |-> <<i, arg>>, fail |-> 0]
        /\ IF r.raised # "" \/ value \notin TriggerSource
           THEN /\ result' = IF r.raised # "" THEN Raised(r.raised)
                             ELSE Raised("ValueNotSupportedException")
                /\ sent' = <<>>
                /\ UNCHANGED <<trigger_source, output_start_trigger_source,
                               output_start_trigger_source_valid>>
           ELSE /\ sent' = IF simulate THEN <<>>
                           ELSE WriteMsgs(":trigger:source", <<>>, 0, value)
                /\ trigger_source' = IF simulate THEN trigger_source
                                     ELSE SourceSetting(value)
                /\ output_start_trigger_source' = ForAllOutputs(value)
                /\ output_start_trigger_source_valid' =
                      SetCacheValid(output_start_trigger_source_valid, index, TRUE)
                /\ result' = NoneResult

\* _get_output_start_trigger_threshold(index)
GetOutputStartTriggerThreshold(i) ==
    LET r == GetIndex(OutputName, i)
        index == r.index
    IN  /\ op' = [name |-> "get_output_start_trigger_threshold", handle |-> <<>>,
                  data |-> <<i>>, fail |-> 0]
        /\ UNCHANGED trigger_level
        /\ IF r.raised # ""
           THEN /\ result' = Raised(r.raised)
                /\ sent' = <<>>
                /\ UNCHANGED <<output_start_trigger_threshold,
                               output_start_trigger_threshold_valid>>
           ELSE IF ~simulate /\ ~output_start_trigger_threshold_valid[index]
           THEN /\ sent' = AskMsgs(":trigger:level?", 0)
                /\ output_start_trigger_threshold' = ForAllOutputs(trigger_level)
                /\ output_start_trigger_threshold_valid' =
                      SetCacheValid(output_start_trigger_threshold_valid, index, TRUE)
                /\ result' = Returned(trigger_level)
           ELSE /\ sent' = <<>>
                /\ result' = Returned(output_start_trigger_threshold[index])
                /\ UNCHANGED <<output_start_trigger_threshold,
                               output_start_trigger_threshold_valid>>

\* _set_output_start_trigger_threshold(index, value)
SetOutputStartTriggerThreshold(i, value) ==
    LET r == GetIndex(OutputName, i)
        index == r.index
    IN  /\ op' = [name |-> "set_output_start_trigger_threshold", handle |-> <<>>,
                  data |-> <<i, value>>, fail |-> 0]
        /\ IF r.raised # ""
           THEN /\ result' = Raised(r.raised)
                /\ sent' = <<>>
                /\ UNCHANGED <<trigger_level, output_start_trigger_threshold,
                               output_start_trigger_threshold_valid>>
           ELSE /\ sent' = IF simulate THEN <<>>
                           ELSE WriteMsgs(":trigger:level", <<>>, value, "V")
                /\ trigger_level' = IF simulate THEN trigger_level ELSE value
                /\ output_start_trigger_threshold' = ForAllOutputs(value)
                /\ output_start_trigger_threshold_valid' =
                      SetCacheValid(output_start_trigger_threshold_valid, index, TRUE)
                /\ result' = NoneResult

\* the names of the data markers, two per output
data_marker_count == 2 * output_count
DataMarkerName == <<"marker1", "marker2", "marker3", "marker4">>

\* the index arguments of the marker runs
MarkerSelectors ==
    { [kind |-> "name", name |-> "marker2", int |-> 0],
      [kind |-> "name", name |-> "marker9", int |-> 0] }
    \cup { [kind |-> "int", name |-> "", int |-> k] : k \in 0..data_marker_count }

\* mutant of BitPosition: the two bits exchanged
BitPositionSwapped(index) == LeftShift(2 - (index % 2), 6)

\* '(index % 2 + 1) << 6'
BitPosition(index) == LeftShift((index % 2) + 1, 6)

\* _get_data_marker_bit_position(index)
GetDataMarkerBitPosition(i) ==
    LET r == GetIndex(DataMarkerName, i)
    IN  /\ op' = [name |-> "get_data_marker_bit_position", handle |-> <<>>,
                  data |-> <<i>>, fail |-> 0]
        /\ sent' = <<>>
        /\ result' = IF r.raised # "" THEN Raised(r.raised)
                     ELSE Returned(BitPosition(r.index))

\* _set_data_marker_bit_position(index, value): pass
SetDataMarkerBitPosition(i, value) ==
    /\ op' = [name |-> "set_data_marker_bit_position", handle |-> <<>>,
              data |-> <<i, value>>, fail |-> 0]
    /\ sent' = <<>>
    /\ result' = NoneResult

----------------------------------------------------------------------------
(* agilentBaseS: channel input impedance and coupling *)

Channels == 0..(AnalogChannels - 1)

\* VerticalCoupling, and the values a channel has before any set or query
VerticalCoupling == {"ac", "dc"}
DefaultCoupling == "dc"
DefaultInputImpedance == 1000000

\* the settings ':channelN:input?' answers
InputSettings == {"DC", "DC50", "AC"}

\* the text of the exception both setters raise for 50 Ohm with AC coupling
AcWith50Message == "AC coupling not supported for 50 Ohm input impedance."

ScopeMsg(kind, cmd, index, value) == [kind |-> kind, cmd |-> cmd, index |-> index, value |-> value]
ScopeRaised(e, msg) == [raised |-> e, msg |-> msg, value |-> 0]
ScopeReturned(v) == [raised |-> "", msg |-> "", value |-> v]
ScopeNoOp == [name |-> "none", index |-> 0, value |-> 0]

\* mutant of UnsupportedCombination: the combination is never refused
AnyCombination(impedance, coupling) == FALSE

\* 'value == 50 and coupling == "ac"' / 'impedance == 50 and value == "ac"'
UnsupportedCombination(impedance, coupling) == impedance = 50 /\ coupling = "ac"

\* mutant of Queries: the getter asks whatever the validity of the entry
AlwaysQueries(valid_of, index) == ~scope_simulate

\* whether the getter of an entry asks the oscilloscope
Queries(valid_of, index) == ~scope_simulate /\ ~valid_of[index]

\* the coupling _get_channel_coupling(index) returns
CouplingRead(index) ==
    IF Queries(channel_coupling_valid, index)
    THEN IF Lower(chan_input[index]) \in {"dc", "dc50", "dcfifty"} THEN "dc" ELSE "ac"
    ELSE channel_coupling[index]

\* the impedance _get_channel_input_impedance(index) returns
ImpedanceRead(index) ==
    IF Queries(channel_input_impedance_valid, index)
    THEN IF Lower(chan_input[index]) \in {"dc50", "dcfifty"} THEN 50 ELSE 1000000
    ELSE channel_input_impedance[index]

\* the cache effects and messages of _get_channel_coupling(index)
ReadCoupling(index) ==
    /\ channel_coupling' = [channel_coupling EXCEPT ![index] = CouplingRead(index)]
    /\ channel_coupling_valid' =
          IF Queries(channel_coupling_valid, index)
          THEN SetCacheValid(channel_coupling_valid, index, TRUE)
          ELSE channel_coupling_valid

\* the cache effects of _get_channel_input_impedance(index)
ReadImpedance(index) ==
    /\ channel_input_impedance' =
          [channel_input_impedance EXCEPT ![index] = ImpedanceRead(index)]
    /\ channel_input_impedance_valid' =
          IF Queries(channel_input_impedance_valid, index)
          THEN SetCacheValid(channel_input_impedance_valid, index, TRUE)
          ELSE channel_input_impedance_valid

\* the messages of a getter of the input setting
QueryMsgs(valid_of, index) ==
    IF Queries(valid_of, index) THEN <<ScopeMsg("ask", ":input?", index, "")>> ELSE <<>>

\* mutant of TransmittedValue: the coupling alone
TransmittedCoupling(impedance, coupling) == coupling

\* the value the setters transmit for the resulting pair
TransmittedValue(impedance, coupling) ==
    IF coupling = "dc"
    THEN IF impedance = 50 THEN "dc50" ELSE "dc"
    ELSE "ac"

\* the setting the oscilloscope takes from ':channelN:input <value>'
SettingOf(transmitted_value) ==
    CASE transmitted_value = "dc50" -> "DC50"
      [] transmitted_value = "dc" -> "DC"
      [] OTHER -> "AC"

GetChannelCoupling(index) ==
    /\ scope_op' = [name |-> "get_channel_coupling", index |-> index, value |-> 0]
    /\ scope_sent' = QueryMsgs(channel_coupling_valid, index)
    /\ ReadCoupling(index)
    /\ scope_result' = ScopeReturned(CouplingRead(index))
    /\ UNCHANGED <<chan_input, channel_input_impedance, channel_input_impedance_valid>>

GetChannelInputImpedance(index) ==
    /\ scope_op' = [name |-> "get_channel_input_impedance", index |-> index, value |-> 0]
    /\ scope_sent' = QueryMsgs(channel_input_impedance_valid, index)
    /\ ReadImpedance(index)
    /\ scope_result' = ScopeReturned(ImpedanceRead(index))
    /\ UNCHANGED <<chan_input, channel_coupling, channel_coupling_valid>>

SetChannelInputImpedance(index, value) ==
    /\ scope_op' = [name |-> "set_channel_input_impedance", index |-> index, value |-> value]
    /\ IF value \notin {50, 1000000}
       THEN /\ scope_result' = ScopeRaised("ValueNotSupportedException", "")
            /\ scope_sent' = <<>>
            /\ UNCHANGED <<chan_input, channel_coupling, channel_coupling_valid,
                           channel_input_impedance, channel_input_impedance_valid>>
       ELSE LET coupling == CouplingRead(index)
                transmitted_value == TransmittedValue(value, coupling)
            IN  /\ ReadCoupling(index)
                /\ IF UnsupportedCombination(value, coupling)
                   THEN /\ scope_result' = ScopeRaised("ValueNotSupportedException",
                                                       AcWith50Message)
                        /\ scope_sent' = QueryMsgs(channel_coupling_valid, index)
                        /\ UNCHANGED <<chan_input, channel_input_impedance,
                                       channel_input_impedance_valid>>
                   ELSE /\ scope_result' = ScopeReturned(0)
                        /\ scope_sent' =
                              QueryMsgs(channel_coupling_valid, index)
                              \o (IF scope_simulate THEN <<>>
                                  ELSE <<ScopeMsg("write", ":input", index, transmitted_value)>>)
                        /\ chan_input' =
                              IF scope_simulate THEN chan_input
                              ELSE [chan_input EXCEPT ![index] = SettingOf(transmitted_value)]
                        /\ channel_input_impedance' =
                              [channel_input_impedance EXCEPT ![index] = value]
                        /\ channel_input_impedance_valid' =
                              SetCacheValid(channel_input_impedance_valid, index, TRUE)

SetChannelCoupling(index, value) ==
    /\ scope_op' = [name |-> "set_channel_coupling", index |-> index, value |-> value]
    /\ IF value \notin VerticalCoupling
       THEN /\ scope_result' = ScopeRaised("ValueNotSupportedException", "")
            /\ scope_sent' = <<>>
            /\ UNCHANGED <<chan_input, channel_coupling, channel_coupling_valid,
                           channel_input_impedance, channel_input_impedance_valid>>
       ELSE LET impedance == ImpedanceRead(index)
                transmitted_value == TransmittedValue(impedance, value)
            IN  /\ ReadImpedance(index)
                /\ IF UnsupportedCombination(impedance, value)
                   THEN /\ scope_result' = ScopeRaised("ValueNotSupportedException",
                                                       AcWith50Message)
                        /\ scope_sent' = QueryMsgs(channel_input_impedance_valid, index)
                        /\ UNCHANGED <<chan_input, channel_coupling, channel_coupling_valid>>
                   ELSE /\ scope_result' = ScopeReturned(0)
                        /\ scope_sent' =
                              QueryMsgs(channel_input_impedance_valid, index)
                              \o (IF scope_simulate THEN <<>>
                                  ELSE <<ScopeMsg("write", ":input", index, transmitted_value)>>)
                        /\ chan_input' =
                              IF scope_simulate THEN chan_input
                              ELSE [chan_input EXCEPT ![index] = SettingOf(transmitted_value)]
                        /\ channel_coupling' = [channel_coupling EXCEPT ![index] = value]
                        /\ channel_coupling_valid' =
                              SetCacheValid(channel_coupling_valid, index, TRUE)

----------------------------------------------------------------------------
(* agilentBaseS: trigger type and channel common mode *)

\* TriggerTypeMapping: the trigger types and the mode the oscilloscope is given
\* for each ('width' as set at line 41)
TriggerTypes == {"edge", "glitch", "width", "ac_line"}
TriggerTypeMapping(type) ==
    CASE type = "edge" -> "edge"
      [] type = "glitch" -> "glitch"
      [] type = "width" -> "pwidth"
      [] type = "ac_line" -> "edge"
DefaultTriggerType == "edge"

\* the answers of ':trigger:mode?' and of ':trigger:edge:source?'
TrigModes == {"EDGE", "GLIT", "PWID"}
EdgeSources == {"CHAN1", "LINE"}

\* str.lower() on those answers
LowerAnswer(resp) ==
    CASE resp = "EDGE" -> "edge"
      [] resp = "GLIT" -> "glitch"
      [] resp = "PWID" -> "pwidth"
      [] resp = "CHAN1" -> "chan1"
      [] resp = "LINE" -> "line"

\* the mode the oscilloscope takes from ':trigger:mode <mode>'
ModeOf(mode) ==
    CASE mode = "edge" -> "EDGE"
      [] mode = "glitch" -> "GLIT"
      [] mode = "pwidth" -> "PWID"

\* the trigger type _get_trigger_type computes from the answers
TriggerTypeRead ==
    LET value == LowerAnswer(trig_mode)
    IN  IF value = "edge"
        THEN IF LowerAnswer(trig_edge_source) = "line" THEN "ac_line" ELSE value
        ELSE CHOOSE k \in TriggerTypes : TriggerTypeMapping(k) = value

\* the messages _get_trigger_type sends when the entry is not valid
TriggerTypeQueries ==
    <<ScopeMsg("ask", ":trigger:mode?", 0, "")>>
    \o (IF LowerAnswer(trig_mode) = "edge"
        THEN <<ScopeMsg("ask", ":trigger:edge:source?", 0, "")>>
        ELSE <<>>)

GetTriggerType ==
    /\ scope_op' = [name |-> "get_trigger_type", index |-> 0, value |-> 0]
    /\ UNCHANGED <<trig_mode, trig_edge_source, chan_commonmode, channel_common_mode,
                   channel_common_mode_valid>>
    /\ IF ~scope_simulate /\ ~trigger_type_valid
       THEN /\ scope_sent' = TriggerTypeQueries
            /\ trigger_type' = TriggerTypeRead
            /\ trigger_type_valid' = TRUE
            /\ scope_result' = ScopeReturned(TriggerTypeRead)
       ELSE /\ scope_sent' = <<>>
            /\ scope_result' = ScopeReturned(trigger_type)
            /\ UNCHANGED <<trigger_type, trigger_type_valid>>

SetTriggerType(value) ==
    /\ scope_op' = [name |-> "set_trigger_type", index |-> 0, value |-> value]
    /\ UNCHANGED <<chan_commonmode, channel_common_mode, channel_common_mode_valid>>
    /\ IF value \notin TriggerTypes
       THEN /\ scope_result' = ScopeRaised("ValueNotSupportedException", "")
            /\ scope_sent' = <<>>
            /\ UNCHANGED <<trig_mode, trig_edge_source, trigger_type, trigger_type_valid>>
       ELSE /\ scope_result' = ScopeReturned(0)
            /\ scope_sent' =
                  IF scope_simulate THEN <<>>
                  ELSE <<ScopeMsg("write", ":trigger:mode", 0, TriggerTypeMapping(value))>>
                       \o (IF value = "ac_line"
                           THEN <<ScopeMsg("write", ":trigger:edge:source", 0, "line")>>
                           ELSE <<>>)
            /\ trig_mode' = IF scope_simulate THEN trig_mode
                            ELSE ModeOf(TriggerTypeMapping(value))
            /\ trig_edge_source' = IF ~scope_simulate /\ value = "ac_line" THEN "LINE"
                                   ELSE trig_edge_source
            /\ trigger_type' = value
            /\ trigger_type_valid' = TRUE

GetChannelCommonMode(index) ==
    /\ scope_op' = [name |-> "get_channel_common_mode", index |-> index, value |-> 0]
    /\ UNCHANGED <<trig_mode, trig_edge_source, trigger_type, trigger_type_valid,
                   chan_commonmode>>
    /\ IF Queries(channel_common_mode_valid, index)
       THEN LET value == AsBool(BoolDigit(chan_commonmode[index]))
            IN  /\ scope_sent' = <<ScopeMsg("ask", ":commonmode?", index, "")>>
                /\ channel_common_mode' = [channel_common_mode EXCEPT ![index] = value]
                /\ channel_common_mode_valid' =
                      SetCacheValid(channel_common_mode_valid, index, TRUE)
                /\ scope_result' = ScopeReturned(value)
       ELSE /\ scope_sent' = <<>>
            /\ scope_result' = ScopeReturned(channel_common_mode[index])
            /\ UNCHANGED <<channel_common_mode, channel_common_mode_valid>>

SetChannelCommonMode(index, arg) ==
    LET value == AsBool(arg)
    IN  /\ scope_op' = [name |-> "set_channel_common_mode", index |-> index, value |-> arg]
        /\ UNCHANGED <<trig_mode, trig_edge_source, trigger_type, trigger_type_valid>>
        /\ scope_sent' = IF scope_simulate THEN <<>>
                         ELSE <<ScopeMsg("write", ":commonmode", index,
                                         IF BoolDigit(value) = 1 THEN "1" ELSE "0")>>
        /\ chan_commonmode' = IF scope_simulate THEN chan_commonmode
                              ELSE [chan_commonmode EXCEPT ![index] = value]
        /\ channel_common_mode' = [channel_common_mode EXCEPT ![index] = value]
        /\ channel_common_mode_valid' = SetCacheValid(channel_common_mode_valid, index, TRUE)
        /\ scope_result' = ScopeReturned(0)

----------------------------------------------------------------------------
(* agilentBaseS: fetching a waveform *)

\* the names of the channels, as many as the model has
ChannelNameOrder == <<"channel1", "channel2", "channel3", "channel4">>
ChannelName == SubSeq(ChannelNameOrder, 1, AnalogChannels)

\* the index arguments of the runs: names and numbers, resolved or not
ChannelSelectors ==
    { [kind |-> "name", name |-> "channel1", int |-> 0],
      [kind |-> "name", name |-> "channel9", int |-> 0],
      [kind |-> "int", name |-> "", int |-> AnalogChannels - 1],
      [kind |-> "int", name |-> "", int |-> AnalogChannels] }

\* what the oscilloscope answers to ':waveform:preamble?' (format, type, points;
\* the other fields go to the trace unread by the checks) and the block it sends
Preambles == [format : {1, 2, 4}, type : {0, 1, 2}, points : 0..2]
Blocks == { <<1, 0, 255, 255>>, <<0, 128>> }
ByteOrders == {"little", "big"}

\* array.array('h', b): the signed 16-bit words of a byte string, low byte first
Words(b) ==
    [i \in 1..(Len(b) \div 2) |->
        LET w == b[2 * i - 1] + 256 * b[2 * i]
        IN  IF w >= 32768 THEN w - 65536 ELSE w]

\* mutant of AcquisitionTypeRefused: no acquisition type is refused
NoTypeRefused(acq_type) == FALSE

\* 'if acq_type == 1'
AcquisitionTypeRefused(acq_type) == acq_type = 1

\* 'if acq_format != 2'
FormatRefused(acq_format) == acq_format # 2

\* the commands sent before the preamble is asked for
FetchSetup(byteorder, index) ==
    << ScopeMsg("write", ":waveform:byteorder", 0,
                IF byteorder = "little" THEN "lsbfirst" ELSE "msbfirst"),
       ScopeMsg("write", ":waveform:format", 0, "word"),
       ScopeMsg("write", ":waveform:streaming", 0, "on"),
       ScopeMsg("write", ":waveform:source", index, ""),
       ScopeMsg("ask", ":waveform:preamble?", 0, "") >>

\* _measurement_fetch_waveform(index): pre is the preamble and block the data the
\* oscilloscope answers with, byteorder is sys.byteorder
MeasurementFetchWaveform(i, byteorder, pre, block) ==
    LET r == GetIndex(ChannelName, i)
        index == r.index
    IN  /\ scope_op' = [name |-> "measurement_fetch_waveform", index |-> i,
                        value |-> [byteorder |-> byteorder, pre |-> pre, block |-> block]]
        /\ IF r.raised # ""
           THEN /\ scope_result' = ScopeRaised(r.raised, "")
                /\ scope_sent' = <<>>
           ELSE IF scope_simulate
           THEN /\ scope_result' = ScopeReturned(<<>>)
                /\ scope_sent' = <<>>
           ELSE IF AcquisitionTypeRefused(pre.type)
           THEN /\ scope_result' = ScopeRaised("InvalidAcquisitionTypeException", "")
                /\ scope_sent' = FetchSetup(byteorder, index)
           ELSE IF FormatRefused(pre.format)
           THEN /\ scope_result' = ScopeRaised("UnexpectedResponseException", "")
                /\ scope_sent' = FetchSetup(byteorder, index)
           ELSE /\ scope_result' =
                      ScopeReturned([y_raw |-> Words(Slice(block, 0, pre.points * 2))])
                /\ scope_sent' = FetchSetup(byteorder, index)
                                 \o << ScopeMsg("write", ":waveform:data?", 0, ""),
                                       ScopeMsg("read_block", "", 0, "") >>

----------------------------------------------------------------------------
(* Properties of the encoder *)

\* what _arbitrary_waveform_create took as samples and markers from enc_data
EncU == Unpack(enc_data)

\* the control byte expected for sample i (1-based) of the unpacked input
ExpectedControlByte(u, i) ==
    (IF u.has_marker1 /\ u.marker1[i] # 0 THEN 64 ELSE 0)
    + (IF u.has_marker2 /\ u.marker2[i] # 0 THEN 128 ELSE 0)

\* C1: for an accepted real-valued input of N samples the payload is exactly 5*N
\* bytes; bytes 5i..5i+3 are the little-endian float32 of clipped sample i and
\* byte 5i+4 is the control byte of sample i, in sample order.
C1_PayloadLayout ==
    enc_result.accepted =>
        LET raw == enc_result.raw_data
            N   == Len(EncU.y)
        IN  /\ enc_result.n = N
            /\ Len(raw) = 5 * N
            /\ \A i \in 0..(N - 1) :
                  /\ SubSeq(raw, 5 * i + 1, 5 * i + 4) = Float32Bytes(Clip(EncU.y[i + 1]))
                  /\ raw[5 * i + 5] = ExpectedControlByte(EncU, i + 1)

\* C1 witness: an encoded input of two or more samples with a marker stream, a set
\* marker and a clipped sample
C1_Witness ==
    /\ enc_result.accepted
    /\ Len(EncU.y) >= 2
    /\ EncU.has_marker1
    /\ \E i \in 1..Len(EncU.y) : EncU.marker1[i] # 0
    /\ \E i \in 1..Len(EncU.y) : EncU.y[i] > Unit
    /\ EncU.y[1] # EncU.y[2]

\* C2: the control byte of every sample equals (m1<<6)|(m2<<7), a marker counting as
\* 1 iff its value is non-zero; it is 0 when no marker stream is supplied and has at
\* most bit 6 set when only marker 1 is supplied.
C2_ControlByte ==
    enc_result.accepted =>
        \A i \in 1..Len(EncU.y) :
            LET byte == enc_result.raw_data[5 * i]
                m1   == IF EncU.has_marker1 /\ EncU.marker1[i] # 0 THEN 1 ELSE 0
                m2   == IF EncU.has_marker2 /\ EncU.marker2[i] # 0 THEN 1 ELSE 0
            IN  /\ byte = BitOr(m1 * 64, m2 * 128)
                /\ ~EncU.has_marker1 => byte = 0
                /\ (EncU.has_marker1 /\ ~EncU.has_marker2) => byte \in {0, 64}

\* C2 witness: an encoded input with two marker streams in which some sample has
\* only marker 2 set (a value that is neither 0 nor 1) and another has both set
C2_Witness ==
    /\ enc_result.accepted
    /\ EncU.has_marker1 /\ EncU.has_marker2
    /\ \E i \in 1..Len(EncU.y) :
          EncU.marker1[i] = 0 /\ EncU.marker2[i] = Unit \div 2
          /\ enc_result.raw_data[5 * i] = 128
    /\ \E i \in 1..Len(EncU.y) :
          EncU.marker1[i] # 0 /\ EncU.marker2[i] # 0 /\ enc_result.raw_data[5 * i] = 192

\* decoding a payload: drop every fifth byte, read the rest as 4-byte floats
Decode(raw) ==
    [i \in 1..(Len(raw) \div 5) |-> Float32Value(SubSeq(raw, 5 * i - 4, 5 * i - 1))]

\* whether the value v (in units of 2^-25) is a float32: at most 24 significant bits
IsFloat32(v) ==
    \/ v = 0
    \/ LET p == Log2Floor(Abs(v)) IN p <= 23 \/ Abs(v) % 2^(p - 23) = 0

\* the lengths C3 is about: a multiple of the quantum within [size_min, size_max]
LengthAllowed(n) ==
    /\ n % arbitrary_waveform_quantum = 0
    /\ n >= arbitrary_waveform_size_min
    /\ n <= arbitrary_waveform_size_max

StreamsOf(data) ==
    LET k == data.shape[1]
        w == data.shape[2]
        a == data.a
        col(j) == [i \in 1..Len(a) |-> a[i][j]]
    IN  IF k = 1 THEN <<a[1]>>
        ELSE IF w = 1 THEN <<col(1)>>
        ELSE IF k = 2 THEN <<a[1], a[2]>>
        ELSE IF w = 2 THEN <<col(1), col(2)>>
        ELSE <<a[1], a[2], a[3]>>

\* the samples and markers the encoder is to take when given the streams
Roles(streams) ==
    [has_y |-> TRUE, y |-> streams[1],
     has_marker1 |-> Len(streams) >= 2,
     marker1 |-> IF Len(streams) >= 2 THEN streams[2] ELSE <<>>,
     has_marker2 |-> Len(streams) >= 3,
     marker2 |-> IF Len(streams) >= 3 THEN streams[3] ELSE <<>>,
     data_type |-> "real"]

\* the input encoded is a two-dimensional array of one, two or three rows
RowsOneToThree ==
    /\ enc_result.done
    /\ Len(enc_data.shape) = 2
    /\ enc_data.shape[1] \in 1..3

\* C22 as stated: a two-dimensional input of k rows, k in 1..3, is encoded with
\* row 0 as the samples and rows 1..k-1 as the markers, whatever its width.
C22_Original ==
    RowsOneToThree =>
        /\ enc_result.n = enc_data.shape[2]
        /\ enc_result.raw_data = RawData(Roles(enc_data.a))

\* C22: a two-dimensional input of k rows and w columns, k in 1..3, is encoded
\* with row 0 as the samples and rows 1..k-1 as the markers when k is 1, or k is
\* 2 and w is not 1, or k is 3 and w is neither 1 nor 2; with w = 1 and k > 1 the
\* single column is the samples (length k, no marker), and with k = 3 and w = 2
\* column 0 is the samples and column 1 is marker 1 (length 3).
C22_RowsUnlessNarrow ==
    RowsOneToThree =>
        LET k == enc_data.shape[1]
            w == enc_data.shape[2]
            rows == k = 1 \/ (k = 2 /\ w # 1) \/ (k = 3 /\ w \notin {1, 2})
        IN  /\ enc_result.accepted
            /\ enc_result.raw_data = RawData(Roles(StreamsOf(enc_data)))
            /\ enc_result.n = Len(StreamsOf(enc_data)[1])
            /\ rows => /\ StreamsOf(enc_data) = enc_data.a
                       /\ enc_result.n = w
            /\ ~rows => /\ enc_result.n = k
                        /\ Len(StreamsOf(enc_data)) = w

\* an array of three rows and two columns was encoded: three samples with one
\* marker, the values of the second column deciding the control bytes
C22_Witness ==
    /\ RowsOneToThree
    /\ enc_data.shape = <<3, 2>>
    /\ enc_result.n = 3
    /\ enc_result.raw_data # RawData(Roles(enc_data.a))


----------------------------------------------------------------------------
(* Properties of the generator driver: create, clear, handles *)

\* the positions in `sent` of the messages with one of the commands `cmds`
Positions(cmds) == { i \in 1..Len(sent) : sent[i].cmd \in cmds }

NewCommand == {":wlist:waveform:new"}
DeleteCommand == {":wlist:waveform:delete"}
CatalogQueries == {"wlist:size?", "wlist:name?"}

\* the last call was a create that returned a handle
CreateReturned == op.name = "create" /\ result.raised = ""

\* C5: a create whose sample sequence is shorter than arbitrary_waveform_size_min or
\* longer than arbitrary_waveform_size_max, the generator reporting no error, raises
\* the driver's size error (ValueNotSupportedException) and sends no
\* ':wlist:waveform:new' command.
C5_SizeRejected ==
    (/\ op.name = "create"
     /\ op.fail = 0
     /\ Unpack(op.data).has_y
     /\ \/ Len(Unpack(op.data).y) < arbitrary_waveform_size_min
        \/ Len(Unpack(op.data).y) > arbitrary_waveform_size_max)
    => /\ result.raised = "ValueNotSupportedException"
       /\ Positions(NewCommand) = {}

\* C6: the handle a create returns is not in the catalog that call loaded, was not
\* on the generator when the call was made (whoever created what is there), and was
\* not returned by an earlier create; so the handles returned are pairwise distinct.
C6_HandleUnused ==
    /\ [](/\ CreateReturned => result.value \notin Range(wfm_catalog)
          /\ \A i, j \in 1..Len(handles) : i # j => handles[i] # handles[j])
    /\ [][Len(handles') > Len(handles) =>
             /\ handles'[Len(handles')] \notin wlist
             /\ handles'[Len(handles')] \notin Range(handles)]_vars

\* a create returned wfm0002 as its first handle, wfm0001 being in the catalog it
\* loaded
C6_Witness ==
    /\ CreateReturned
    /\ handles = <<Handle(2)>>
    /\ result.value = Handle(2)
    /\ Handle(1) \in Range(wfm_catalog)

\* the digit a character stands for
DigitValue(c) == CHOOSE d \in 0..9 : DigitChars[d + 1] = c

RECURSIVE ParseDigits(_)
\* the number a sequence of digit characters writes
ParseDigits(s) ==
    IF s = <<>> THEN 0
    ELSE 10 * ParseDigits(SubSeq(s, 1, Len(s) - 1)) + DigitValue(s[Len(s)])

\* 'wfm', then at least four digits, more than four only without a leading zero
WellFormedHandle(h) ==
    /\ Len(h) >= 7
    /\ SubSeq(h, 1, 3) = <<"w", "f", "m">>
    /\ \A i \in 4..Len(h) : h[i] \in Range(DigitChars)
    /\ Len(h) > 7 => h[4] # "0"

HandleNumber(h) == ParseDigits(SubSeq(h, 4, Len(h)))

\* C7: every handle create returned is 'wfm' and the counter in four zero-padded
\* digits, the counter being the driver's at the time of the return; the numbers of
\* the handles increase strictly in the order they were returned; no step (create,
\* failed create, clear, reset) decreases the counter and every create that returns
\* a handle increases it.
C7_CounterHandles ==
    /\ [](/\ \A i \in 1..Len(handles) : WellFormedHandle(handles[i])
          /\ \A i, j \in 1..Len(handles) :
                i < j => HandleNumber(handles[i]) < HandleNumber(handles[j])
          /\ CreateReturned =>
                /\ result.value = handles[Len(handles)]
                /\ HandleNumber(result.value) = arbitrary_waveform_n)
    /\ [][/\ arbitrary_waveform_n' >= arbitrary_waveform_n
          /\ Len(handles') > Len(handles) => arbitrary_waveform_n' > arbitrary_waveform_n]_vars

\* two creates returned wfm0001 and wfm0002, then a reset went through
C7_Witness ==
    /\ handles = <<Handle(1), Handle(2)>>
    /\ op.name = "utility_reset"
    /\ result.raised = ""
    /\ ~simulate
    /\ arbitrary_waveform_n = 2

\* C8: a clear queries the catalog before anything else; unless the generator
\* reported an error during those queries, a handle that is not in the reloaded
\* catalog makes it raise InvalidOptionValueException with no delete command sent,
\* and a handle that is in it makes it send exactly one delete command, naming
\* that handle.
C8_ClearUnknownHandle ==
    op.name = "clear" =>
        LET deletes == Positions(DeleteCommand)
            queries == Positions(CatalogQueries)
            reload_failed == result.raised = "IviException" /\ deletes = {}
        IN  /\ ~simulate => 1 \in queries
            /\ \A d \in deletes, q \in queries : q < d
            /\ result.raised = "IviException" => op.fail >= 1
            /\ ~reload_failed =>
                  IF op.handle \notin Range(wfm_catalog)
                  THEN /\ result.raised = "InvalidOptionValueException"
                       /\ deletes = {}
                  ELSE /\ Cardinality(deletes) = 1
                       /\ \A d \in deletes : sent[d].name = op.handle
                       /\ result.raised \in {"", "IviException"}

\* a clear of a handle that is not among the names of a non-empty catalog
C8_Witness ==
    /\ op.name = "clear"
    /\ ~simulate
    /\ result.raised = "InvalidOptionValueException"
    /\ Len(wfm_catalog) >= 1
    /\ op.handle \notin Range(wfm_catalog)
    /\ Positions(DeleteCommand) = {}

----------------------------------------------------------------------------
(* Properties of the generator driver: the cache and the generator *)

\* the last call was a set_output_arbitrary_waveform that returned
SetWaveformReturned ==
    op.name = "set_output_arbitrary_waveform" /\ result.raised = ""

\* C11: after a set of an output's arbitrary waveform returned, the entry of that
\* output is marked valid and holds the value set (in lower case, as the setter
\* takes it).
C11_SetMarksValid ==
    SetWaveformReturned =>
        /\ output_arbitrary_waveform_valid[op.data.index]
        /\ output_arbitrary_waveform[op.data.index] = LowerName(op.handle)

\* what the getters would read from the generator at this moment
ReportedWaveform(k) == LowerName(StripQuotes(Quoted(source_waveform[k])))
ReportedEnabled(k) == AsBool(BoolDigit(output_state[k]))
ReportedMode(k) == IF Lower(rmode) = "seq" THEN "sequence" ELSE "arbitrary"

\* C12: outside simulate mode, every entry of the generator driver that is marked
\* valid holds the value the generator would report for it.
C12_ValidMirrorsInstrument ==
    ~simulate =>
        \A k \in Outputs :
            /\ output_arbitrary_waveform_valid[k] =>
                  output_arbitrary_waveform[k] = ReportedWaveform(k)
            /\ output_enabled_valid[k] => output_enabled[k] = ReportedEnabled(k)
            /\ output_mode_valid[k] => output_mode[k] = ReportedMode(k)

\* no entry of the generator driver is marked valid
NoEntryValid ==
    \A k \in Outputs :
        /\ ~output_mode_valid[k]
        /\ ~output_arbitrary_waveform_valid[k]
        /\ ~output_enabled_valid[k]

\* the last call was a reset that returned
ResetReturned == op.name = "utility_reset" /\ result.raised = ""

\* C13 as stated: after a reset that returned, no entry is marked valid.
C13_Original == ResetReturned => NoEntryValid

\* C13: after a reset that returned outside simulate mode no entry is marked
\* valid; in simulate mode the reset sends nothing and leaves every entry, value
\* and validity, as it was.
C13_ResetInvalidates ==
    /\ []((ResetReturned /\ ~simulate) => NoEntryValid)
    /\ [][(simulate /\ op'.name = "utility_reset") =>
             /\ sent' = <<>>
             /\ result' = NoneResult
             /\ UNCHANGED <<output_mode, output_mode_valid, output_arbitrary_waveform,
                            output_arbitrary_waveform_valid, output_enabled,
                            output_enabled_valid>>]_vars

\* a reset returned outside simulate mode, an entry holding a mode that was read
\* or set before
C13_Witness ==
    /\ ResetReturned
    /\ ~simulate
    /\ \E k \in Outputs : output_mode[k] # DefaultOutputMode
    /\ NoEntryValid

----------------------------------------------------------------------------
(* Properties of the generator driver: arguments, errors, simulate mode *)

\* the last call named an output the driver resolves
OutputResolved == GetIndex(OutputName, op.data[1]).raised = ""

\* C14: a set of the operation mode of an output the driver resolves returns when
\* the value is one of OperationMode and raises ValueNotSupportedException when
\* it is not; a call that raised sent nothing.
C14_RejectsExactlyIllegal ==
    (op.name = "set_output_operation_mode" /\ OutputResolved) =>
        /\ op.data[2] \in OperationMode => result.raised = ""
        /\ op.data[2] \notin OperationMode =>
              result.raised = "ValueNotSupportedException"
        /\ result.raised # "" => sent = <<>>

\* the calls of the runs that take the name or the number of an output
IndexAddressed ==
    {"get_output_enabled", "set_output_enabled", "set_output_operation_mode",
     "set_output_start_trigger_delay"}

\* C15: a call that takes the name or the number of an output and is given one the
\* driver does not resolve raises the exception of the resolution and sends
\* nothing.
C15_UnresolvableFails ==
    (op.name \in IndexAddressed /\ ~OutputResolved) =>
        /\ result.raised = GetIndex(OutputName, op.data[1]).raised
        /\ sent = <<>>

\* every command, query and block is followed at once by the error query, and
\* nothing else is
ErrorQueried ==
    /\ Len(sent) % 2 = 0
    /\ \A i \in 1..Len(sent) : (i % 2 = 0) <=> (sent[i] = ErrorQuery)

\* an IviException comes from an error the generator reported, and nothing was
\* sent after the error query that read it
RaisedAtOnce ==
    result.raised = "IviException" =>
        /\ op.fail >= 1
        /\ Len(sent) = 2 * op.fail

\* C16: every command, query and block sent to the generator is followed at once
\* by ':system:error?'; when the generator reports an error the call raises
\* IviException with nothing more sent, and a set of output enabled that raised
\* it leaves the value and the validity of every output enabled entry unchanged.
C16_ErrorQueryAfterEachMessage ==
    /\ [](ErrorQueried /\ RaisedAtOnce)
    /\ [][(op'.name = "set_output_enabled" /\ result'.raised = "IviException") =>
             UNCHANGED <<output_enabled, output_enabled_valid>>]_vars

\* a set of output enabled was rejected by the generator while an entry was valid
C16_Witness ==
    /\ op.name = "set_output_enabled"
    /\ result.raised = "IviException"
    /\ sent = WriteMsgs(":output%d:state", <<>>, GetIndex(OutputName, op.data[1]).index + 1,
                        sent[1].data_type)
    /\ \E k \in Outputs : output_enabled_valid[k]

\* C17: in simulate mode nothing is sent, the status query returns, and a get of
\* output enabled on an output the driver resolves returns the stored value.
C17_SimulateCompletes ==
    simulate =>
        /\ sent = <<>>
        /\ op.name = "get_status" => result.raised = ""
        /\ (op.name = "get_output_enabled" /\ OutputResolved) =>
              result = Returned(output_enabled[GetIndex(OutputName, op.data[1]).index])

----------------------------------------------------------------------------
(* Properties of the drivers: sequences of calls and the messages of a call *)

\* C18: a set of an output's arbitrary waveform made right after the create that
\* returned the handle, with that handle, returns, and so does a clear of the
\* handle made right after that set, the generator reporting no error; in
\* simulate mode as well as with a generator.
C18_CreateAssignClear ==
    [][/\ (/\ CreateReturned
           /\ op'.name = "set_output_arbitrary_waveform"
           /\ op'.handle = result.value
           /\ op'.fail = 0) => result'.raised = ""
       /\ (/\ SetWaveformReturned
           /\ op'.name = "clear"
           /\ op'.handle = op.handle
           /\ op'.fail = 0) => result'.raised = ""]_vars

\* the getters of the oscilloscope driver in the runs
ScopeGetters == {"get_trigger_type", "get_channel_common_mode"}

\* the step is a get that follows a get of the same attribute and index
GetAfterGet ==
    /\ scope_op.name \in ScopeGetters
    /\ scope_op'.name = scope_op.name
    /\ scope_op'.index = scope_op.index

Commands == SelectSeq(sent, LAMBDA x : x # ErrorQuery)

\* C20 as stated: a call sends at most one command or query.
C20_Original == Len(Commands) <= 1

\* the queries of a reload of the catalog that went through: the size, then one
\* query per name, by position
CatalogReloaded ==
    /\ Len(Commands) >= Len(wfm_catalog) + 1
    /\ Commands[1].cmd = "wlist:size?"
    /\ \A k \in 1..Len(wfm_catalog) :
          /\ Commands[k + 1].cmd = "wlist:name?"
          /\ Commands[k + 1].n = k - 1

\* C20: in simulate mode a call sends nothing; with a generator, each command,
\* query or block of a call is followed by the error query before the next is
\* sent; a create that returned sent the size query, one name query per waveform
\* in the catalog, the new command and the data block, in that order; a clear
\* that returned sent the queries of the catalog and the delete command; a reset
\* that returned sent one command.
C20_MessagesPerOperation ==
    /\ simulate => sent = <<>>
    /\ ErrorQueried
    /\ (CreateReturned /\ ~simulate) =>
          /\ CatalogReloaded
          /\ Len(Commands) = Len(wfm_catalog) + 3
          /\ Commands[Len(wfm_catalog) + 2].cmd = ":wlist:waveform:new"
          /\ Commands[Len(wfm_catalog) + 3].kind = "block"
          /\ Commands[Len(wfm_catalog) + 3].cmd = ":wlist:waveform:data"
    /\ (op.name = "clear" /\ result.raised = "" /\ ~simulate) =>
          /\ CatalogReloaded
          /\ Len(Commands) = Len(wfm_catalog) + 2
          /\ Commands[Len(wfm_catalog) + 2].cmd = ":wlist:waveform:delete"
    /\ (ResetReturned /\ ~simulate) => Len(Commands) = 1

\* a create returned with a generator holding two waveforms: seven messages apart
\* from the error queries
C20_Witness ==
    /\ CreateReturned
    /\ ~simulate
    /\ Len(wfm_catalog) = 2
    /\ Len(Commands) = 5

\* the number of samples of the array handed to the last create
SampleCount == Len(Unpack(op.data).y)

\* C23: a create that returned with a generator attached sent, in this order, the
\* queries reloading the catalog, the 'new' command and one data block; the
\* handle returned is not in the catalog reloaded, and the 'new' command and the
\* block both name it and carry the number of samples; a create after whose data
\* block the generator reported an error returns no handle.
C23_CreateOrder ==
    /\ (CreateReturned /\ ~simulate) =>
          LET K == Len(wfm_catalog)
          IN  /\ CatalogReloaded
              /\ Len(Commands) = K + 3
              /\ result.value \notin Range(wfm_catalog)
              /\ Commands[K + 2] =
                    Msg("write", ":wlist:waveform:new", result.value, SampleCount,
                        Unpack(op.data).data_type, <<>>)
              /\ Commands[K + 3].kind = "block"
              /\ Commands[K + 3].cmd = ":wlist:waveform:data"
              /\ Commands[K + 3].name = result.value
              /\ Commands[K + 3].n = SampleCount
              /\ op.fail = 0
    /\ (op.name = "create" /\ op.fail >= 1) => result.raised = "IviException"

\* a create of three samples returned wfm0002, the generator holding wfm0001
C23_Witness ==
    /\ CreateReturned
    /\ ~simulate
    /\ wfm_catalog = <<Handle(1)>>
    /\ result.value = Handle(2)
    /\ SampleCount = 3
    /\ Len(sent) = 8

\* C24: after a create that raised, no 'new' command of the call was accepted by
\* the generator: if one was sent, it is the last message but the error query
\* that reported the error.
C24_AllOrNothing ==
    (op.name = "create" /\ result.raised # "") =>
        \A p \in Positions(NewCommand) :
            /\ result.raised = "IviException"
            /\ Len(sent) = p + 1

\* the step is a waveform put on the generator by someone else: the driver is
\* not involved
ExternalStep ==
    /\ wlist' # wlist
    /\ UNCHANGED <<op, result, sent, arbitrary_waveform_n, wfm_catalog, handles>>

\* C25: a create that gets to its handle loop advances the counter by d, with
\* 1 <= d <= K + 1 for the K names of the catalog reloaded: the handles of the
\* d - 1 numbers passed over are all in the catalog and the handle of the number
\* reached is not; a create that does not get to the loop leaves the counter.
C25_LoopIterations ==
    [][(op'.name = "create" /\ ~ExternalStep) =>
          LET d == arbitrary_waveform_n' - arbitrary_waveform_n
              K == Len(wfm_catalog')
          IN  IF \/ result'.raised \in {"TypeError", "ValueNotSupportedException"}
                 \/ (~simulate /\ op'.fail \in 1..(Cardinality(wlist) + 1))
              THEN d = 0
              ELSE /\ d \in 1..(K + 1)
                   /\ \A m \in (arbitrary_waveform_n + 1)..(arbitrary_waveform_n' - 1) :
                         Handle(m) \in Range(wfm_catalog')
                   /\ Handle(arbitrary_waveform_n') \notin Range(wfm_catalog')]_vars

\* a create went round the loop twice, the one name of the catalog being wfm0001
C25_Witness ==
    /\ CreateReturned
    /\ wfm_catalog = <<Handle(1)>>
    /\ arbitrary_waveform_n = 2
    /\ handles = <<Handle(2)>>

\* C26: the handle a create returns was not returned by an earlier create of the
\* driver, whether or not the earlier handle is still on the generator; a clear
\* leaves the counter and the handles returned as they were.
C26_NoHandleReuse ==
    /\ [](CreateReturned =>
             \A i \in 1..(Len(handles) - 1) : handles[i] # result.value)
    /\ [][op'.name = "clear" =>
             UNCHANGED <<arbitrary_waveform_n, handles>>]_vars

\* wfm0001 was returned and cleared, and the next create returned wfm0002
C26_Witness ==
    /\ CreateReturned
    /\ ~simulate
    /\ handles = <<Handle(1), Handle(2)>>
    /\ Handle(1) \notin wlist
    /\ Handle(1) \notin Range(wfm_catalog)


----------------------------------------------------------------------------
(* Properties of the generator driver: output mode cache *)

\* the last call was a set_output_mode(i, 'sequence') that returned
SetSequenceReturned ==
    /\ op.name = "set_output_mode"
    /\ op.data[2] = "sequence"
    /\ result.raised = ""

\* C10 as stated: after a set_output_mode(i, 'sequence') that returned, the
\* output_mode entry of every output, i included, is invalid.
C10_Original ==
    SetSequenceReturned => \A k \in Outputs : ~output_mode_valid[k]

\* C10: after a set_output_mode(i, 'sequence') that returned, the output_mode entry
\* of every output other than i is invalid and the entry of i is valid and holds
\* 'sequence'; outside simulate mode a get_output_mode made next queries the
\* generator for an output other than i and answers 'sequence' without a query for i.
C10_SequenceInvalidatesOthers ==
    /\ [](SetSequenceReturned =>
             /\ \A k \in Outputs \ {op.data[1]} : ~output_mode_valid[k]
             /\ output_mode_valid[op.data[1]]
             /\ output_mode[op.data[1]] = "sequence")
    /\ [][(SetSequenceReturned /\ ~simulate /\ op'.name = "get_output_mode") =>
             IF op'.data[1] # op.data[1]
             THEN /\ sent' # <<>>
                  /\ sent'[1].cmd = ":awgcontrol:rmode?"
             ELSE /\ sent' = <<>>
                  /\ result' = Returned("sequence")]_vars

\* a set_output_mode(i, 'sequence') returned, outside simulate mode, and the entry of
\* another output, which held a mode read or set earlier, is invalid
C10_Witness ==
    /\ SetSequenceReturned
    /\ ~simulate
    /\ \E k \in Outputs \ {op.data[1]} :
          /\ output_mode[k] # DefaultOutputMode
          /\ ~output_mode_valid[k]

----------------------------------------------------------------------------
(* Properties of the oscilloscope driver *)

\* the coupling and the impedance a channel has when a call is made: the setting
\* of the oscilloscope, and in simulate mode what the driver holds
CouplingIsAc(c) ==
    IF scope_simulate THEN channel_coupling[c] = "ac" ELSE chan_input[c] = "AC"
ImpedanceIs50(c) ==
    IF scope_simulate THEN channel_input_impedance[c] = 50 ELSE chan_input[c] = "DC50"

\* the step is set_channel_input_impedance(c, 50), made while the coupling of c is 'ac'
Sets50WhileAc ==
    /\ scope_op'.name = "set_channel_input_impedance"
    /\ scope_op'.value = 50
    /\ CouplingIsAc(scope_op'.index)

\* the step is set_channel_coupling(c, 'ac'), made while the impedance of c is 50
SetsAcWhile50 ==
    /\ scope_op'.name = "set_channel_coupling"
    /\ scope_op'.value = "ac"
    /\ ImpedanceIs50(scope_op'.index)

\* the call raised the combination error and sent no ':channelN:input <value>' command
RefusedCombination ==
    /\ scope_result' = ScopeRaised("ValueNotSupportedException", AcWith50Message)
    /\ \A i \in 1..Len(scope_sent') : scope_sent'[i].kind # "write"
    /\ chan_input' = chan_input

\* C9 as stated: both calls raise the combination error, send no ':input' command
\* and leave both cached attributes as they were.
C9_Original ==
    [][(Sets50WhileAc \/ SetsAcWhile50) =>
          /\ RefusedCombination
          /\ UNCHANGED <<channel_coupling, channel_coupling_valid,
                         channel_input_impedance, channel_input_impedance_valid>>]_vars

\* C9: both calls raise the combination error (a ValueNotSupportedException) and send
\* no ':channelN:input <value>' command; the cached attribute being set keeps its
\* value and validity, on every channel; the other attribute is untouched on the
\* other channels, and on the channel of the call it is either untouched or was
\* just read from the oscilloscope: valid and holding the value the call was
\* refused for.
C9_CombinationRefused ==
    [][/\ Sets50WhileAc =>
             /\ RefusedCombination
             /\ UNCHANGED <<channel_input_impedance, channel_input_impedance_valid>>
             /\ \A c \in Channels \ {scope_op'.index} :
                   /\ channel_coupling'[c] = channel_coupling[c]
                   /\ channel_coupling_valid'[c] = channel_coupling_valid[c]
             /\ channel_coupling'[scope_op'.index] = "ac"
             /\ \/ UNCHANGED <<channel_coupling, channel_coupling_valid>>
                \/ /\ ~channel_coupling_valid[scope_op'.index]
                   /\ channel_coupling_valid'[scope_op'.index]
                   /\ scope_sent' = <<ScopeMsg("ask", ":input?", scope_op'.index, "")>>
       /\ SetsAcWhile50 =>
             /\ RefusedCombination
             /\ UNCHANGED <<channel_coupling, channel_coupling_valid>>
             /\ \A c \in Channels \ {scope_op'.index} :
                   /\ channel_input_impedance'[c] = channel_input_impedance[c]
                   /\ channel_input_impedance_valid'[c] = channel_input_impedance_valid[c]
             /\ channel_input_impedance'[scope_op'.index] = 50
             /\ \/ UNCHANGED <<channel_input_impedance, channel_input_impedance_valid>>
                \/ /\ ~channel_input_impedance_valid[scope_op'.index]
                   /\ channel_input_impedance_valid'[scope_op'.index]
                   /\ scope_sent' = <<ScopeMsg("ask", ":input?", scope_op'.index, "")>>]_vars

\* set_channel_coupling(c, 'ac') was refused, the impedance of c having been set
\* to 50 through the driver before
C9_Witness ==
    /\ scope_op.name = "set_channel_coupling"
    /\ scope_op.value = "ac"
    /\ scope_result = ScopeRaised("ValueNotSupportedException", AcWith50Message)
    /\ channel_input_impedance[scope_op.index] = 50
    /\ channel_input_impedance_valid[scope_op.index]
    /\ channel_coupling[scope_op.index] = "dc"
    /\ scope_sent = <<>>

\* the step is a set of the impedance or of the coupling of a channel that returned
InputSetReturns ==
    /\ scope_op'.name \in {"set_channel_input_impedance", "set_channel_coupling"}
    /\ scope_result'.raised = ""

\* the token that stands for a pair of impedance and coupling
InputToken(impedance, coupling) ==
    CASE impedance = 50 /\ coupling = "dc" -> "dc50"
      [] impedance = 1000000 /\ coupling = "dc" -> "dc"
      [] impedance = 1000000 /\ coupling = "ac" -> "ac"
      [] OTHER -> "none"

\* no channel is held at 50 Ohm with AC coupling
Never50WithAc ==
    \A c \in Channels : ~(channel_input_impedance[c] = 50 /\ channel_coupling[c] = "ac")

\* C27 as stated: the pair held is never (50, 'ac'), a setter that returned left
\* the value held for the other attribute as it was, and outside simulate mode
\* the last message it sent carries the token of the pair then held.
C27_Original ==
    /\ []Never50WithAc
    /\ [][InputSetReturns =>
             LET c == scope_op'.index
             IN  /\ scope_op'.name = "set_channel_input_impedance" =>
                       channel_coupling' = channel_coupling
                 /\ scope_op'.name = "set_channel_coupling" =>
                       channel_input_impedance' = channel_input_impedance
                 /\ ~scope_simulate =>
                       scope_sent'[Len(scope_sent')] =
                          ScopeMsg("write", ":input", c,
                                   InputToken(channel_input_impedance'[c],
                                              channel_coupling'[c]))]_vars

\* the other attribute of channel c across a setter: as it was, or, its entry being
\* invalid outside simulate mode, read from the oscilloscope and marked valid
KeptOrRead(value_of, valid_of, value_after, valid_after, c, read) ==
    /\ \A k \in Channels \ {c} :
          value_after[k] = value_of[k] /\ valid_after[k] = valid_of[k]
    /\ IF ~scope_simulate /\ ~valid_of[c]
       THEN /\ valid_after[c]
            /\ value_after[c] = read
            /\ scope_sent'[1] = ScopeMsg("ask", ":input?", c, "")
       ELSE value_after[c] = value_of[c] /\ valid_after[c] = valid_of[c]

\* C27: the pair held for a channel is never (50, 'ac'); a setter that returned
\* stored its value and marked its entry valid, left the other attribute of the
\* other channels alone, and left the other attribute of its channel as it was
\* unless that entry was invalid outside simulate mode, in which case it was read
\* from the oscilloscope first; outside simulate mode the last message sent is
\* the ':input' command with the token of the pair then held.
C27_PairAndToken ==
    /\ []Never50WithAc
    /\ [][InputSetReturns =>
             LET c == scope_op'.index
             IN  /\ scope_op'.name = "set_channel_input_impedance" =>
                       /\ channel_input_impedance'[c] = scope_op'.value
                       /\ channel_input_impedance_valid'[c]
                       /\ KeptOrRead(channel_coupling, channel_coupling_valid,
                                     channel_coupling', channel_coupling_valid', c,
                                     IF chan_input[c] = "AC" THEN "ac" ELSE "dc")
                 /\ scope_op'.name = "set_channel_coupling" =>
                       /\ channel_coupling'[c] = scope_op'.value
                       /\ channel_coupling_valid'[c]
                       /\ KeptOrRead(channel_input_impedance, channel_input_impedance_valid,
                                     channel_input_impedance',
                                     channel_input_impedance_valid', c,
                                     IF chan_input[c] = "DC50" THEN 50 ELSE 1000000)
                 /\ IF scope_simulate
                    THEN scope_sent' = <<>>
                    ELSE scope_sent'[Len(scope_sent')] =
                            ScopeMsg("write", ":input", c,
                                     InputToken(channel_input_impedance'[c],
                                                channel_coupling'[c]))]_vars

\* outside simulate mode the impedance of a channel was set to 50, the coupling
\* entry being read on the way, and 'dc50' was sent
C27_Witness ==
    /\ ~scope_simulate
    /\ scope_op.name = "set_channel_input_impedance"
    /\ scope_result.raised = ""
    /\ Len(scope_sent) = 2
    /\ scope_sent[2] = ScopeMsg("write", ":input", scope_op.index, "dc50")
    /\ channel_input_impedance[scope_op.index] = 50
    /\ channel_coupling[scope_op.index] = "dc"

\* the last call was a fetch on a channel the driver resolves
FetchResolved ==
    /\ scope_op.name = "measurement_fetch_waveform"
    /\ GetIndex(ChannelName, scope_op.index).raised = ""

\* the positions in scope_sent of the data request, of the reads of a block and
\* of the preamble query
DataRequests == { k \in 1..Len(scope_sent) : scope_sent[k].cmd = ":waveform:data?" }
BlockReads == { k \in 1..Len(scope_sent) : scope_sent[k].kind = "read_block" }
PreambleQueries == { k \in 1..Len(scope_sent) : scope_sent[k].cmd = ":waveform:preamble?" }

\* C30: a fetch sends ':waveform:data?' only after the preamble query, and only
\* when the preamble gave a type other than 1 and format 2, and then once,
\* followed by the read of the block; for type 1 it raises
\* InvalidAcquisitionTypeException and for another format
\* UnexpectedResponseException, with no data request and no read; in simulate
\* mode it sends nothing and returns an empty list.
C30_FetchAfterPreamble ==
    FetchResolved =>
        LET pre == scope_op.value.pre
        IN  /\ scope_simulate =>
                  scope_sent = <<>> /\ scope_result = ScopeReturned(<<>>)
            /\ \A d \in DataRequests :
                  /\ \E q \in PreambleQueries : q < d
                  /\ pre.type # 1
                  /\ pre.format = 2
            /\ \A b \in BlockReads : \E d \in DataRequests : d < b
            /\ (~scope_simulate /\ pre.type = 1) =>
                  /\ scope_result = ScopeRaised("InvalidAcquisitionTypeException", "")
                  /\ DataRequests = {} /\ BlockReads = {}
            /\ (~scope_simulate /\ pre.type # 1 /\ pre.format # 2) =>
                  /\ scope_result = ScopeRaised("UnexpectedResponseException", "")
                  /\ DataRequests = {} /\ BlockReads = {}
            /\ (~scope_simulate /\ pre.type # 1 /\ pre.format = 2) =>
                  /\ scope_result.raised = ""
                  /\ Cardinality(DataRequests) = 1
                  /\ Cardinality(BlockReads) = 1

\* a fetch was refused for acquisition type 1, the preamble giving format 2: the
\* setup commands and the preamble query were sent, nothing after them
C30_Witness ==
    /\ FetchResolved
    /\ ~scope_simulate
    /\ scope_op.value.pre.type = 1
    /\ scope_op.value.pre.format = 2
    /\ scope_result.raised = "InvalidAcquisitionTypeException"
    /\ Len(scope_sent) = 5
    /\ PreambleQueries = {5}

----------------------------------------------------------------------------
(* Properties: run and stop *)

RunCommand == Msg("write", "AWGC:RUN", <<>>, 0, "", <<>>)
StopCommand == Msg("write", "AWGC:STOP", <<>>, 0, "", <<>>)

\* C21 as stated: initiate_generation sends exactly one run request and
\* abort_generation exactly one stop request.
C21_Original ==
    /\ op.name = "initiate_generation" => Len(SelectSeq(sent, LAMBDA x : x = RunCommand)) = 1
    /\ op.name = "abort_generation" => Len(SelectSeq(sent, LAMBDA x : x = StopCommand)) = 1

\* what the driver keeps: the attribute caches with their validity, the catalog
\* and the handle counter
DriverMemory ==
    <<output_mode, output_mode_valid, output_arbitrary_waveform,
      output_arbitrary_waveform_valid, output_enabled, output_enabled_valid,
      output_start_trigger_slope, output_start_trigger_slope_valid,
      output_start_trigger_source, output_start_trigger_source_valid,
      output_start_trigger_threshold, output_start_trigger_threshold_valid,
      wfm_catalog, arbitrary_waveform_n, handles>>

\* C21 amended: outside simulate mode initiate_generation sends exactly one run
\* request and abort_generation exactly one stop request, each followed only by
\* the error query, so that no run state is read and nothing is waited for; in
\* simulate mode neither sends anything.  Neither changes the value or validity
\* of a cache entry, the waveform catalog or the handle counter.
C21_RunAndStop ==
    [][ op'.name \in {"initiate_generation", "abort_generation"} =>
            /\ sent' = IF simulate THEN <<>>
                       ELSE << IF op'.name = "initiate_generation" THEN RunCommand
                               ELSE StopCommand,
                               ErrorQuery >>
            /\ result'.value = <<>>
            /\ (result'.raised # "") <=> (op'.fail = 1)
            /\ UNCHANGED DriverMemory ]_vars

\* C21 witness: after a waveform was created the generator was told to stop, which
\* it accepted, and the handle counter stands where the creation left it
C21_Witness ==
    /\ op.name = "abort_generation"
    /\ ~simulate
    /\ sent = <<StopCommand, ErrorQuery>>
    /\ result = NoneResult
    /\ arbitrary_waveform_n >= 1
    /\ wfm_catalog # <<>>

----------------------------------------------------------------------------
(* Properties: the start trigger *)

StartTriggerAttributes == {"slope", "source", "threshold"}
StartTriggerSetter ==
    [slope |-> "set_output_start_trigger_slope",
     source |-> "set_output_start_trigger_source",
     threshold |-> "set_output_start_trigger_threshold"]
StartTriggerGetter ==
    [slope |-> "get_output_start_trigger_slope",
     source |-> "get_output_start_trigger_source",
     threshold |-> "get_output_start_trigger_threshold"]

\* a step in which attribute a is read, with success, right after it was set,
\* with success
GetAfterSet(a) ==
    /\ op.name = StartTriggerSetter[a]
    /\ result = NoneResult
    /\ op'.name = StartTriggerGetter[a]
    /\ result'.raised = ""

\* C28 as stated: a get that follows a successful set with value v returns v, on
\* every output.
C28_Original ==
    [][ \A a \in StartTriggerAttributes : GetAfterSet(a) => result'.value = op.data[2] ]_vars

\* C28 amended: a get that follows a successful set with value v returns v on every
\* output, whether or not the entry of that output was valid before, except that a
\* source set with None is read back as 'internal'.
C28_GlobalStartTrigger ==
    [][ \A a \in StartTriggerAttributes :
            GetAfterSet(a) =>
                result'.value = IF a = "source" /\ op.data[2] = "None" THEN "internal"
                                ELSE op.data[2] ]_vars

\* C28 witness: the threshold, 0 in the generator at first, was set to 1 on the
\* first output, and the get on the second output, whose entry was not valid,
\* asked the generator and returned 1
C28_Witness ==
    /\ op.name = "get_output_start_trigger_threshold"
    /\ op.data[1].int = 1
    /\ sent = AskMsgs(":trigger:level?", 0)
    /\ result = Returned(1)
    /\ output_start_trigger_threshold_valid[0]

----------------------------------------------------------------------------
(* Properties: the data marker bit positions *)

\* the index of the data marker a finished get_data_marker_bit_position named
MarkerIndex == GetIndex(DataMarkerName, op.data[1]).index

BitPositionReported ==
    /\ op.name = "get_data_marker_bit_position"
    /\ result.raised = ""

\* C29: the bit position reported for data marker m is 64 (bit 6) when m is the
\* first marker of an output and 128 (bit 7) when it is the second, whatever
\* set_data_marker_bit_position calls came before; and in every encoded sample
\* the reported bit of the control byte is set exactly when the matching marker
\* stream is non-zero at that sample.
C29_BitPositions ==
    BitPositionReported =>
        /\ result.value = IF MarkerIndex % 2 = 0 THEN 64 ELSE 128
        /\ enc_result.accepted =>
              \A i \in 1..Len(EncU.y) :
                  LET given == IF MarkerIndex % 2 = 0 THEN EncU.has_marker1
                               ELSE EncU.has_marker2
                      stream == IF MarkerIndex % 2 = 0 THEN EncU.marker1 ELSE EncU.marker2
                      byte == enc_result.raw_data[5 * i]
                  IN  ((byte \div result.value) % 2 = 1) <=> (given /\ stream[i] # 0)

\* C29 witness: the position of the second marker of the second output was
\* reported as 128 while an encoded sample has only its second marker set and the
\* control byte 128
C29_Witness ==
    /\ BitPositionReported
    /\ MarkerIndex = 3
    /\ result.value = 128
    /\ enc_result.accepted
    /\ EncU.has_marker2
    /\ \E i \in 1..Len(EncU.y) :
          EncU.marker1[i] = 0 /\ EncU.marker2[i] # 0 /\ enc_result.raw_data[5 * i] = 128

----------------------------------------------------------------------------
(* Specifications *)

\* the encoder variables while a driver is followed
IdleEnc == enc_data = NoData /\ enc_result = NoResult

\* the generator driver after __init__, no call made yet
InitDriver ==
    /\ wfm_catalog = <<>>
    /\ arbitrary_waveform_n = 0
    /\ op = NoOp
    /\ result = NoneResult
    /\ sent = <<>>
    /\ handles = <<>>
    /\ output_mode = [k \in Outputs |-> DefaultOutputMode]
    /\ output_mode_valid = [k \in Outputs |-> FALSE]
    /\ output_arbitrary_waveform = [k \in Outputs |-> <<>>]
    /\ output_arbitrary_waveform_valid = [k \in Outputs |-> FALSE]
    /\ output_enabled = [k \in Outputs |-> FALSE]
    /\ output_enabled_valid = [k \in Outputs |-> FALSE]
    /\ output_start_trigger_slope = ForAllOutputs(DefaultStartTriggerSlope)
    /\ output_start_trigger_slope_valid = [k \in Outputs |-> FALSE]
    /\ output_start_trigger_source = ForAllOutputs(DefaultStartTriggerSource)
    /\ output_start_trigger_source_valid = [k \in Outputs |-> FALSE]
    /\ output_start_trigger_threshold = ForAllOutputs(DefaultStartTriggerThreshold)
    /\ output_start_trigger_threshold_valid = [k \in Outputs |-> FALSE]

\* the start trigger of the generator while something else is followed
IdleStartTrigger ==
    /\ trigger_slope = "POS"
    /\ trigger_source = "INT"
    /\ trigger_level = 0

\* the outputs of the generator, off and with no waveform
IdleOutputs ==
    /\ source_waveform = [k \in Outputs |-> <<>>]
    /\ output_state = [k \in Outputs |-> FALSE]

\* the generator while something else is followed
IdleWfm ==
    /\ simulate = FALSE
    /\ wlist = {}
    /\ rmode = "CONT"
    /\ IdleOutputs
    /\ InitDriver
    /\ IdleStartTrigger

\* the oscilloscope driver after __init__, no call made yet
InitScopeDriver ==
    /\ channel_coupling = [c \in Channels |-> DefaultCoupling]
    /\ channel_coupling_valid = [c \in Channels |-> FALSE]
    /\ channel_input_impedance = [c \in Channels |-> DefaultInputImpedance]
    /\ channel_input_impedance_valid = [c \in Channels |-> FALSE]
    /\ trigger_type = DefaultTriggerType
    /\ trigger_type_valid = FALSE
    /\ channel_common_mode = [c \in Channels |-> FALSE]
    /\ channel_common_mode_valid = [c \in Channels |-> FALSE]
    /\ scope_op = ScopeNoOp
    /\ scope_result = ScopeReturned(0)
    /\ scope_sent = <<>>

\* the trigger and common mode settings of the oscilloscope while something else
\* is followed
IdleTrig ==
    /\ trig_mode = "EDGE"
    /\ trig_edge_source = "CHAN1"
    /\ chan_commonmode = [c \in Channels |-> FALSE]

\* the oscilloscope while something else is followed
IdleScope ==
    /\ scope_simulate = FALSE
    /\ chan_input = [c \in Channels |-> "DC"]
    /\ IdleTrig
    /\ InitScopeDriver

\* the encoder alone: every input, encoded once
NextEnc == Encode /\ UNCHANGED <<wfmVars, modeVars, outVars, startVars, scopeVars>>

InitSpecEnc == InitEnc /\ IdleWfm /\ IdleScope

SpecEnc == InitSpecEnc /\ [][NextEnc]_vars

\* the generator driver and the waveform list of the generator
InitSpecWfm ==
    /\ simulate \in BOOLEAN
    /\ wlist \in (IF simulate THEN {{}} ELSE SUBSET Names)
    /\ rmode = "CONT"
    /\ IdleOutputs
    /\ InitDriver
    /\ IdleStartTrigger
    /\ IdleEnc
    /\ IdleScope

\* what create, clear and the calls on one output leave alone
outCache == <<output_arbitrary_waveform, output_arbitrary_waveform_valid,
              output_enabled, output_enabled_valid>>

NextWfm ==
    \/ /\ \E data \in CreateInputs, fail \in 0..(MaxHandle + 4) :
              ArbitraryWaveformCreate(data, fail)
       /\ UNCHANGED <<simulate, encVars, startVars, modeVars, outVars, scopeVars>>
    \/ /\ \E handle \in Names, fail \in 0..(MaxHandle + 3) :
              ArbitraryWaveformClear(handle, fail)
       /\ UNCHANGED <<simulate, encVars, startVars, modeVars, output_state, outCache, scopeVars>>
    \/ /\ \E name \in Names : ExternalCreate(name)
       /\ UNCHANGED <<simulate, encVars, startVars, modeVars, outVars, scopeVars>>
    \/ /\ \E fail \in 0..1 : UtilityReset(fail)
       /\ UNCHANGED <<simulate, encVars, startVars, scopeVars>>

SpecWfm == InitSpecWfm /\ [][NextWfm]_vars

\* the generator driver and the run mode of the generator
InitSpecMode ==
    /\ simulate \in BOOLEAN
    /\ wlist = {}
    /\ rmode \in RModes
    /\ IdleOutputs
    /\ InitDriver
    /\ IdleStartTrigger
    /\ IdleEnc
    /\ IdleScope

NextMode ==
    \/ /\ \E index \in Outputs, fail \in 0..1 : GetOutputMode(index, fail)
       /\ UNCHANGED <<simulate, wlist, wfm_catalog, arbitrary_waveform_n, handles,
                      encVars, startVars, outVars, scopeVars>>
    \/ /\ \E index \in Outputs, value \in OutputMode \cup {"noise"}, fail \in 0..1 :
              SetOutputMode(index, value, fail)
       /\ UNCHANGED <<simulate, wlist, wfm_catalog, arbitrary_waveform_n, handles,
                      encVars, startVars, outVars, scopeVars>>
    \/ /\ \E fail \in 0..1 : UtilityReset(fail)
       /\ UNCHANGED <<simulate, encVars, startVars, scopeVars>>

SpecMode == InitSpecMode /\ [][NextMode]_vars

\* the generator driver and the outputs of the generator: a waveform is created,
\* given to an output, the output switched, the waveform cleared
InitSpecOut ==
    /\ simulate \in BOOLEAN
    /\ wlist = {}
    /\ rmode = "CONT"
    /\ IdleOutputs
    /\ InitDriver
    /\ IdleStartTrigger
    /\ IdleEnc
    /\ IdleScope

NextOut ==
    \/ /\ ArbitraryWaveformCreate(OutCreateInput, 0)
       /\ UNCHANGED <<simulate, encVars, startVars, modeVars, outVars, scopeVars>>
    \/ /\ \E handle \in Names : ArbitraryWaveformClear(handle, 0)
       /\ UNCHANGED <<simulate, encVars, startVars, modeVars, output_state, outCache, scopeVars>>
    \/ /\ \E index \in Outputs, fail \in 0..1 : GetOutputArbitraryWaveform(index, fail)
       /\ UNCHANGED <<simulate, wlist, wfm_catalog, arbitrary_waveform_n, handles,
                      source_waveform, output_state, output_enabled, output_enabled_valid,
                      encVars, startVars, modeVars, scopeVars>>
    \/ /\ \E index \in Outputs, arg \in WaveformArgs, fail \in {0, Cardinality(wlist) + 2} :
              SetOutputArbitraryWaveform(index, arg, fail)
       /\ UNCHANGED <<simulate, wlist, arbitrary_waveform_n, handles,
                      output_state, output_enabled, output_enabled_valid,
                      encVars, startVars, modeVars, scopeVars>>
    \/ /\ \E fail \in 0..1 : UtilityReset(fail)
       /\ UNCHANGED <<simulate, encVars, startVars, scopeVars>>

SpecOut == InitSpecOut /\ [][NextOut]_vars

\* the generator driver: the state of the outputs, the status, the setters that
\* do not reach the generator, and a waveform sent to the generator
InitSpecCalls ==
    /\ simulate \in BOOLEAN
    /\ wlist = {}
    /\ rmode = "CONT"
    /\ source_waveform = [k \in Outputs |-> <<>>]
    /\ output_state \in (IF simulate THEN {[k \in Outputs |-> FALSE]}
                         ELSE [Outputs -> BOOLEAN])
    /\ InitDriver
    /\ IdleStartTrigger
    /\ IdleEnc
    /\ IdleScope

callFrame == <<simulate, wlist, wfm_catalog, arbitrary_waveform_n, handles,
               encVars, startVars, modeVars, scopeVars>>

NextCalls ==
    \/ /\ \E answer \in 0..2, fail \in 0..1 : GetStatus(answer, fail)
       /\ UNCHANGED <<callFrame, outVars>>
    \/ /\ \E i \in Selectors, value \in OperationModeArgs : SetOutputOperationMode(i, value)
       /\ UNCHANGED <<callFrame, outVars>>
    \/ /\ \E i \in Selectors, value \in 0..1 : SetOutputStartTriggerDelay(i, value)
       /\ UNCHANGED <<callFrame, outVars>>
    \/ /\ \E i \in Selectors, fail \in 0..1 : GetOutputEnabled(i, fail)
       /\ UNCHANGED <<callFrame, source_waveform, output_arbitrary_waveform,
                      output_arbitrary_waveform_valid>>
    \/ /\ \E i \in Selectors, arg \in {0, 2}, fail \in 0..1 : SetOutputEnabled(i, arg, fail)
       /\ UNCHANGED <<callFrame, source_waveform, output_arbitrary_waveform,
                      output_arbitrary_waveform_valid>>
    \/ /\ \E fail \in 0..1 : InitiateGeneration(fail)
       /\ UNCHANGED <<callFrame, outVars>>
    \/ /\ \E fail \in 0..1 : AbortGeneration(fail)
       /\ UNCHANGED <<callFrame, outVars>>
    \/ /\ \E fail \in {0, Cardinality(wlist) + 3} :
              ArbitraryWaveformCreate(OutCreateInput, fail)
       /\ UNCHANGED <<simulate, encVars, startVars, modeVars, outVars, scopeVars>>

SpecCalls == InitSpecCalls /\ [][NextCalls]_vars

\* the oscilloscope driver and the input settings of the oscilloscope
InitSpecScope ==
    /\ scope_simulate \in BOOLEAN
    /\ chan_input \in [Channels -> InputSettings]
    /\ IdleTrig
    /\ InitScopeDriver
    /\ IdleEnc
    /\ IdleWfm

NextScope ==
    \/ /\ \E index \in Channels : GetChannelCoupling(index)
       /\ UNCHANGED <<scope_simulate, trigVars, encVars, startVars, wfmVars, modeVars, outVars>>
    \/ /\ \E index \in Channels : GetChannelInputImpedance(index)
       /\ UNCHANGED <<scope_simulate, trigVars, encVars, startVars, wfmVars, modeVars, outVars>>
    \/ /\ \E index \in Channels, value \in {50, 1000000, 75} :
              SetChannelInputImpedance(index, value)
       /\ UNCHANGED <<scope_simulate, trigVars, encVars, startVars, wfmVars, modeVars, outVars>>
    \/ /\ \E index \in Channels, value \in {"ac", "dc", "gnd"} :
              SetChannelCoupling(index, value)
       /\ UNCHANGED <<scope_simulate, trigVars, encVars, startVars, wfmVars, modeVars, outVars>>

SpecScope == InitSpecScope /\ [][NextScope]_vars

\* the oscilloscope driver, the trigger type and the common mode of the channels
InitSpecTrig ==
    /\ scope_simulate \in BOOLEAN
    /\ chan_input = [c \in Channels |-> "DC"]
    /\ trig_mode \in TrigModes
    /\ trig_edge_source \in EdgeSources
    /\ chan_commonmode \in [Channels -> BOOLEAN]
    /\ InitScopeDriver
    /\ IdleEnc
    /\ IdleWfm

NextTrig ==
    \/ /\ GetTriggerType
       /\ UNCHANGED <<scope_simulate, inputVars, encVars, startVars, wfmVars, modeVars, outVars>>
    \/ /\ \E value \in TriggerTypes \cup {"tv"} : SetTriggerType(value)
       /\ UNCHANGED <<scope_simulate, inputVars, encVars, startVars, wfmVars, modeVars, outVars>>
    \/ /\ \E index \in Channels : GetChannelCommonMode(index)
       /\ UNCHANGED <<scope_simulate, inputVars, encVars, startVars, wfmVars, modeVars, outVars>>
    \/ /\ \E index \in Channels, arg \in {0, 2} : SetChannelCommonMode(index, arg)
       /\ UNCHANGED <<scope_simulate, inputVars, encVars, startVars, wfmVars, modeVars, outVars>>

SpecTrig == InitSpecTrig /\ [][NextTrig]_vars

\* the oscilloscope driver fetching waveforms
InitSpecFetch ==
    /\ scope_simulate \in BOOLEAN
    /\ chan_input = [c \in Channels |-> "DC"]
    /\ IdleTrig
    /\ InitScopeDriver
    /\ IdleEnc
    /\ IdleWfm

NextFetch ==
    /\ \E i \in ChannelSelectors, byteorder \in ByteOrders, pre \in Preambles,
          block \in Blocks : MeasurementFetchWaveform(i, byteorder, pre, block)
    /\ UNCHANGED <<scope_simulate, inputVars, trigVars, encVars, startVars, wfmVars, modeVars, outVars>>

SpecFetch == InitSpecFetch /\ [][NextFetch]_vars

\* the generator driver and the start trigger of the generator
InitSpecStart ==
    /\ simulate \in BOOLEAN
    /\ wlist = {}
    /\ rmode = "CONT"
    /\ IdleOutputs
    /\ InitDriver
    /\ trigger_slope \in (IF simulate THEN {"POS"} ELSE SlopeAnswers)
    /\ trigger_source \in (IF simulate THEN {"INT"} ELSE SourceAnswers)
    /\ trigger_level = 0
    /\ IdleEnc
    /\ IdleScope

startFrame == <<simulate, wlist, wfm_catalog, arbitrary_waveform_n, handles,
                encVars, modeVars, outVars, scopeVars>>
slopeVars == <<trigger_slope, output_start_trigger_slope, output_start_trigger_slope_valid>>
sourceVars == <<trigger_source, output_start_trigger_source,
                output_start_trigger_source_valid>>
thresholdVars == <<trigger_level, output_start_trigger_threshold,
                   output_start_trigger_threshold_valid>>

NextStart ==
    \/ /\ \E i \in Outputs, fail \in 0..1 :
              GetOutputStartTriggerSlope([kind |-> "int", name |-> "", int |-> i], fail)
       /\ UNCHANGED <<startFrame, sourceVars, thresholdVars>>
    \/ /\ \E i \in Selectors, value \in SlopeArgs, fail \in 0..1 :
              SetOutputStartTriggerSlope(i, value, fail)
       /\ UNCHANGED <<startFrame, sourceVars, thresholdVars>>
    \/ /\ \E i \in Outputs :
              GetOutputStartTriggerSource([kind |-> "int", name |-> "", int |-> i])
       /\ UNCHANGED <<startFrame, slopeVars, thresholdVars>>
    \/ /\ \E i \in Outputs, arg \in SourceArgs :
              SetOutputStartTriggerSource([kind |-> "int", name |-> "", int |-> i], arg)
       /\ UNCHANGED <<startFrame, slopeVars, thresholdVars>>
    \/ /\ \E i \in Outputs :
              GetOutputStartTriggerThreshold([kind |-> "int", name |-> "", int |-> i])
       /\ UNCHANGED <<startFrame, slopeVars, sourceVars>>
    \/ /\ \E i \in Outputs, value \in TriggerLevels :
              SetOutputStartTriggerThreshold([kind |-> "int", name |-> "", int |-> i], value)
       /\ UNCHANGED <<startFrame, slopeVars, sourceVars>>

SpecStart == InitSpecStart /\ [][NextStart]_vars

\* the encoder on arrays of MaxLen columns with one or two marker rows under a
\* row of equal samples, and the bit positions the
\* driver reports for the data markers
MarkerInputs ==
    { RowStacked(t, MaxLen) :
        t \in { x \in StreamTuples(MaxLen) :
                   Len(x) >= 2 /\ \A i \in 1..MaxLen : x[1][i] = x[1][1] } }

InitSpecMarker ==
    /\ enc_data \in MarkerInputs
    /\ enc_result = NoResult
    /\ IdleWfm
    /\ IdleScope

markerFrame == <<simulate, wlist, wfm_catalog, arbitrary_waveform_n, handles,
                 modeVars, outVars, startVars, scopeVars>>

NextMarker ==
    \/ /\ Encode
       /\ UNCHANGED <<wfmVars, modeVars, outVars, startVars, scopeVars>>
    \/ /\ \E i \in MarkerSelectors : GetDataMarkerBitPosition(i)
       /\ UNCHANGED <<markerFrame, encVars>>
    \/ /\ \E i \in MarkerSelectors, value \in {7} : SetDataMarkerBitPosition(i, value)
       /\ UNCHANGED <<markerFrame, encVars>>

SpecMarker == InitSpecMarker /\ [][NextMarker]_vars

====
